---- MODULE Spec2Model ----
(***************************************************************************)
(* Generic PM domains (drivers/base/power/domain.c).                       *)
(*                                                                         *)
(* The state is the fields of struct generic_pm_domain for a fixed set of  *)
(* registered domains, the per-device fields the file reads and writes,    *)
(* the pending power-off work items and, for every device, its position in *)
(* the system-sleep sequence.  Every exported operation and every callback *)
(* installed by pm_genpd_init() is an operator from the state before the   *)
(* call (a record of the fields) to the state after it, the value returned *)
(* and the callbacks invoked; an action commits the record.                *)
(***************************************************************************)
EXTENDS Integers, Sequences, FiniteSets, TLC

\* ------------------------------------------------------------------ sets
Dom == {"A", "B", "C"}
Devs == {"d1", "d2"}
NULL == "NULL"

GPD_STATE_ACTIVE == "ACTIVE"
GPD_STATE_POWER_OFF == "POWER_OFF"

RPM_ACTIVE == "RPM_ACTIVE"
RPM_SUSPENDING == "RPM_SUSPENDING"
RPM_SUSPENDED == "RPM_SUSPENDED"

\* Return values: 0, the negative errno values the file returns, and the
\* positive value a driver's ->prepare() may return.
OK == "0"
EINVAL == "-EINVAL"
EBUSY == "-EBUSY"
EAGAIN == "-EAGAIN"
EIO == "-EIO"
POSITIVE == "1"
ENODEV == "-ENODEV"
EEXIST == "-EEXIST"
ENOENT == "-ENOENT"
EPROBE_DEFER == "-EPROBE_DEFER"

\* #define GENPD_RETRY_MAX_MS
GENPD_RETRY_MAX_MS == 250

\* unsigned int arithmetic of device_count, suspended_count, prepared_count.
\* A value is kept as its two's-complement representative, so that 0 - 1 is -1
\* (UINT_MAX); the comparisons below are the unsigned ones.
uinc(x) == x + 1
udec(x) == x - 1
upos(x) == x # 0
ule(x, y) == IF (x >= 0) = (y >= 0) THEN x <= y ELSE x >= 0

\* ------------------------------------------------------------------ bounds
\* No counter is followed further than this from 0.
MaxCount == 2

\* The measured times and the latency statistics are 0..MaxNs.
MaxNs == 2

VARIABLES
    status,             \* genpd->status
    sd_count,           \* genpd->sd_count
    device_count,       \* genpd->device_count
    suspended_count,    \* genpd->suspended_count
    prepared_count,     \* genpd->prepared_count
    suspend_power_off,  \* genpd->suspend_power_off
    master_links,       \* genpd->master_links: the slaves, in list order
    slave_links,        \* genpd->slave_links: the masters, in list order
    dev_list,           \* genpd->dev_list: the devices, in list order
    power_off_work,     \* domains whose power_off_work is pending on pm_wq
    pm_domain,          \* dev->pm_domain (NULL or the domain)
    domain_data,        \* dev->power.subsys_data->domain_data is set
    nb_registered,      \* gpd_data->nb is on the device's PM QoS notifier chain
    runtime_status,     \* dev->power.runtime_status
    disable_depth,      \* dev->power.disable_depth
    started,            \* the device is started (dev_ops.start / dev_ops.stop)
    devconf,            \* per-device attributes the file only reads
    warned,             \* WARN_ON() of genpd_sd_counter_dec() has fired
    level,              \* how many suspend-side sleep callbacks of the device are not undone
    pm_cycle,           \* the system-wide transition in progress
    resuming,           \* the transition has turned to its resume side
    mutex,              \* genpd->lock: NULL or the thread that holds it
    walk,               \* per thread in genpd_poweron(): its frames, innermost last
    off,                \* per domain: where its power_off_work is in genpd_poweroff()
    probe,              \* per device: where its genpd_dev_pm_attach() or _detach() is
    edit                \* per thread: where its pm_genpd_add_subdomain() or _remove_ is

genpdvars == <<status, sd_count, power_off_work, warned>>
sleepvars == <<suspended_count, prepared_count, suspend_power_off>>
linkvars == <<master_links, slave_links>>
bindvars == <<device_count, dev_list, pm_domain, domain_data, nb_registered>>
rpmvars == <<runtime_status, disable_depth, started>>
dpmvars == <<level, pm_cycle, resuming>>
stepvars == <<mutex, walk, off, probe, edit>>
vars == <<genpdvars, sleepvars, linkvars, bindvars, rpmvars, devconf, dpmvars, stepvars>>

\* A device with no special attribute.
PlainDev ==
    [irq_safe |-> FALSE, can_wakeup |-> FALSE, may_wakeup |-> FALSE,
     active_wakeup |-> FALSE, wakeup_path |-> FALSE, qos_flags |-> FALSE]

\* ------------------------------------------------------------------ helpers
Range(s) == {s[i] : i \in 1..Len(s)}

RemoveFirst(s, x) ==
    LET i == CHOOSE k \in 1..Len(s) : s[k] = x /\ \A j \in 1..(k - 1) : s[j] # x
    IN  SubSeq(s, 1, i - 1) \o SubSeq(s, i + 1, Len(s))

\* The fields the operations read and write, threaded through the operators;
\* calls collects the callbacks an operation invokes, in order.
\* power_on_latency_ns and power_off_latency_ns of the domains and
\* td.suspend_latency_ns and td.resume_latency_ns of the devices.  They decide
\* nothing in this file, so they are not kept from one step to the next: like
\* calls, lat is an observation of one operation, which starts from any
\* statistics; ns is the time its measurements yield.  off_ret is what
\* ->power_off() of each domain returns to pm_genpd_sync_poweroff(), which does
\* not look at it.
Stats(l) ==
    [power_on |-> [g \in Dom |-> l], power_off |-> [g \in Dom |-> l],
     suspend |-> [d \in Devs |-> l], resume |-> [d \in Devs |-> l]]

NoStats == Stats(0)

Cur ==
    [status |-> status, sd_count |-> sd_count, work |-> power_off_work,
     warned |-> warned, suspended_count |-> suspended_count,
     prepared_count |-> prepared_count, suspend_power_off |-> suspend_power_off,
     master_links |-> master_links, slave_links |-> slave_links,
     device_count |-> device_count, dev_list |-> dev_list, pm_domain |-> pm_domain,
     domain_data |-> domain_data, nb |-> nb_registered,
     rts |-> runtime_status, disable_depth |-> disable_depth, started |-> started,
     calls |-> <<>>, lat |-> NoStats, ns |-> 0, off_ret |-> [g \in Dom |-> OK]]

Within(x) == x <= MaxCount /\ x >= -MaxCount

Bounded(G) ==
    /\ \A g \in Dom :
          /\ Within(G.sd_count[g])
          /\ Within(G.suspended_count[g])
          /\ Within(G.prepared_count[g])
    /\ \A d \in Devs : Within(G.disable_depth[d])

\* The fields an operation leaves behind become the state.
Store(G) ==
    \E c \in {G} :
        /\ Bounded(c)
        /\ status' = c.status
        /\ sd_count' = c.sd_count
        /\ power_off_work' = c.work
        /\ warned' = c.warned
        /\ suspended_count' = c.suspended_count
        /\ prepared_count' = c.prepared_count
        /\ suspend_power_off' = c.suspend_power_off
        /\ master_links' = c.master_links
        /\ slave_links' = c.slave_links
        /\ device_count' = c.device_count
        /\ dev_list' = c.dev_list
        /\ pm_domain' = c.pm_domain
        /\ domain_data' = c.domain_data
        /\ nb_registered' = c.nb
        /\ runtime_status' = c.rts
        /\ disable_depth' = c.disable_depth
        /\ started' = c.started
        /\ devconf' = devconf

\* G is the result of one call that ran from its start to its end with no other
\* thread in between.
Commit(G) == Store(G) /\ UNCHANGED stepvars

Called(G, what, whom) == [G EXCEPT !.calls = Append(@, <<what, whom>>)]

Res(G, r) == [G |-> G, ret |-> r]

\* elapsed_ns = ktime_to_ns(ktime_sub(ktime_get(), time_start)) replaces the
\* statistic it exceeds.
measured(G, stat, whom) ==
    [G EXCEPT !.lat[stat][whom] = IF G.ns <= @ THEN @ ELSE G.ns]

\* The same under "if (runtime_pm)" or "if (timed && runtime_pm)".
measured_if(timed, G, stat, whom) == IF timed THEN measured(G, stat, whom) ELSE G

\* mutex_lock(&genpd->lock), mutex_lock_nested() and mutex_unlock(), recorded on
\* the runtime PM, power-on and subdomain paths.
mutex_lock(G, genpd) == Called(G, "mutex_lock", genpd)
mutex_unlock(G, genpd) == Called(G, "mutex_unlock", genpd)

\* mutex_unlock(&genpd->lock) before the result r of the locked section is returned
unlocked(r, genpd) == Res(mutex_unlock(r.G, genpd), r.ret)

\* ------------------------------------------------------------------ counters
genpd_sd_counter_dec(G, genpd) ==
    IF G.sd_count[genpd] = 0
    THEN [G EXCEPT !.warned = TRUE]
    ELSE [G EXCEPT !.sd_count[genpd] = @ - 1]

\* genpd_sd_counter_inc() whose increment is lost
sd_counter_inc_lost(G, genpd) == G

genpd_sd_counter_inc(G, genpd) == [G EXCEPT !.sd_count[genpd] = @ + 1]

genpd_queue_power_off_work(G, genpd) == [G EXCEPT !.work = @ \cup {genpd}]

\* genpd->power_on(): pf is the set of domains whose callback fails now
genpd_power_on(G, genpd, pf) ==
    IF genpd \in pf
    THEN Res(Called(G, "power_on", genpd), EIO)
    ELSE Res(measured(Called(G, "power_on", genpd), "power_on", genpd), OK)

\* genpd_power_off() that reports success whatever ->power_off() returned
genpd_power_off_swallowed(G, genpd, po) ==
    Res(measured(Called(G, "power_off", genpd), "power_off", genpd), OK)

\* genpd_power_off() that sets the status before it knows the result
genpd_power_off_marks_off(G, genpd, po) ==
    Res([Called(G, "power_off", genpd) EXCEPT !.status[genpd] = GPD_STATE_POWER_OFF], po)

\* genpd->power_off(): po is what the callback returns now
genpd_power_off(G, genpd, po) ==
    IF po = EBUSY
    THEN Res(Called(G, "power_off", genpd), po)
    ELSE Res(measured(Called(G, "power_off", genpd), "power_off", genpd), po)

\* At most one ->power_on() fails in a call: a walk stops at the first failure.
PowerOnFailures == {{}} \cup {{g} : g \in Dom}

\* ------------------------------------------------------------------ power on
\* The err: label without its starting point: every link of genpd is rewound,
\* wherever the walk stopped.
poweron_unwind_all(G, genpd, i) ==
    LET n == Len(G.slave_links[genpd])
        rewound[k \in 0..n] ==
            IF k = 0
            THEN G
            ELSE LET master == G.slave_links[genpd][n - k + 1]
                 IN  genpd_queue_power_off_work(
                         genpd_sd_counter_dec(rewound[k - 1], master), master)
    IN  rewound[n]

\* The err: label of __genpd_poweron: the links before position i, backwards.
RECURSIVE poweron_unwind(_, _, _)
poweron_unwind(G, genpd, i) ==
    IF i < 1
    THEN G
    ELSE LET master == G.slave_links[genpd][i]
         IN  poweron_unwind(
                 genpd_queue_power_off_work(genpd_sd_counter_dec(G, master), master),
                 genpd, i - 1)

RECURSIVE poweron_masters(_, _, _, _)
RECURSIVE __genpd_poweron(_, _, _)
RECURSIVE genpd_poweron(_, _, _)

\* The list_for_each_entry loop of __genpd_poweron from link i on; "at" is the
\* position of the link the loop stopped at (Len + 1: the loop ran to its end).
poweron_masters(G, genpd, i, pf) ==
    IF i > Len(G.slave_links[genpd])
    THEN [G |-> G, ret |-> OK, at |-> i]
    ELSE LET master == G.slave_links[genpd][i]
             r == genpd_poweron(genpd_sd_counter_inc(G, master), master, pf)
         IN  IF r.ret # OK
             THEN [G |-> genpd_sd_counter_dec(r.G, master), ret |-> r.ret, at |-> i]
             ELSE poweron_masters(r.G, genpd, i + 1, pf)

\* __genpd_poweron() returning the error without the err: label.
genpd_poweron_no_unwind(G, genpd, pf) ==
    IF G.status[genpd] = GPD_STATE_ACTIVE
       \/ (upos(G.prepared_count[genpd]) /\ G.suspend_power_off[genpd])
    THEN Res(G, OK)
    ELSE LET m == poweron_masters(G, genpd, 1, pf)
         IN  IF m.ret # OK
             THEN Res(m.G, m.ret)
             ELSE LET p == genpd_power_on(m.G, genpd, pf)
                  IN  IF p.ret # OK
                      THEN Res(p.G, p.ret)
                      ELSE Res([p.G EXCEPT !.status[genpd] = GPD_STATE_ACTIVE], OK)

\* __genpd_poweron(): the caller holds the lock of genpd.
__genpd_poweron(G, genpd, pf) ==
    IF G.status[genpd] = GPD_STATE_ACTIVE
       \/ (upos(G.prepared_count[genpd]) /\ G.suspend_power_off[genpd])
    THEN Res(G, OK)
    ELSE LET m == poweron_masters(G, genpd, 1, pf)
         IN  IF m.ret # OK
             THEN Res(poweron_unwind(m.G, genpd, m.at - 1), m.ret)
             ELSE LET p == genpd_power_on(m.G, genpd, pf)
                  IN  IF p.ret # OK
                      THEN Res(poweron_unwind(p.G, genpd, Len(G.slave_links[genpd])), p.ret)
                      ELSE Res([p.G EXCEPT !.status[genpd] = GPD_STATE_ACTIVE], OK)

genpd_poweron(G, genpd, pf) ==
    unlocked(__genpd_poweron(mutex_lock(G, genpd), genpd, pf), genpd)

\* ------------------------------------------------------------------ power off
\* pm_runtime_suspended(): include/linux/pm_runtime.h
pm_runtime_suspended(G, dev) ==
    G.rts[dev] = RPM_SUSPENDED /\ G.disable_depth[dev] = 0

\* The last loop of genpd_poweroff() without genpd_queue_power_off_work().
poweroff_masters_unqueued(G, genpd, i) ==
    LET n == Len(G.slave_links[genpd])
        done[k \in 0..n] ==
            IF k = 0 THEN G ELSE genpd_sd_counter_dec(done[k - 1], G.slave_links[genpd][k])
    IN  done[n]

\* The last loop of genpd_poweroff(): every master, in list order, from link i.
RECURSIVE poweroff_masters(_, _, _)
poweroff_masters(G, genpd, i) ==
    IF i > Len(G.slave_links[genpd])
    THEN G
    ELSE LET master == G.slave_links[genpd][i]
         IN  poweroff_masters(
                 genpd_queue_power_off_work(genpd_sd_counter_dec(G, master), master),
                 genpd, i + 1)

\* genpd_poweroff() without the sd_count tests.
genpd_poweroff_any_sd_count(G, genpd, is_async, in) ==
    LET devs == Range(G.dev_list[genpd])
        not_suspended ==
            Cardinality({d \in devs : ~pm_runtime_suspended(G, d) \/ devconf[d].irq_safe})
    IN  IF G.status[genpd] = GPD_STATE_POWER_OFF \/ upos(G.prepared_count[genpd])
        THEN Res(G, OK)
        ELSE IF \E d \in devs : devconf[d].qos_flags
        THEN Res(G, EBUSY)
        ELSE IF not_suspended > 1 \/ (not_suspended = 1 /\ is_async)
        THEN Res(G, EBUSY)
        ELSE IF ~in.down_ok
        THEN Res(G, EAGAIN)
        ELSE LET p == genpd_power_off(G, genpd, in.po)
             IN  IF p.ret # OK
                 THEN Res(p.G, p.ret)
                 ELSE Res(poweroff_masters(
                              [p.G EXCEPT !.status[genpd] = GPD_STATE_POWER_OFF],
                              genpd, 1), OK)

\* genpd_poweroff() without the test of the status
genpd_poweroff_again(G, genpd, is_async, in) ==
    LET devs == Range(G.dev_list[genpd])
        not_suspended ==
            Cardinality({d \in devs : ~pm_runtime_suspended(G, d) \/ devconf[d].irq_safe})
    IN  IF upos(G.prepared_count[genpd])
        THEN Res(G, OK)
        ELSE IF G.sd_count[genpd] > 0
        THEN Res(G, EBUSY)
        ELSE IF \E d \in devs : devconf[d].qos_flags
        THEN Res(G, EBUSY)
        ELSE IF not_suspended > 1 \/ (not_suspended = 1 /\ is_async)
        THEN Res(G, EBUSY)
        ELSE IF ~in.down_ok
        THEN Res(G, EAGAIN)
        ELSE LET p == genpd_power_off(G, genpd, in.po)
             IN  IF p.ret # OK
                 THEN Res(p.G, p.ret)
                 ELSE Res(poweroff_masters(
                              [p.G EXCEPT !.status[genpd] = GPD_STATE_POWER_OFF],
                              genpd, 1), OK)

\* genpd_poweroff() that takes a suspended IRQ-safe device for suspended
genpd_poweroff_irq_safe_uncounted(G, genpd, is_async, in) ==
    LET devs == Range(G.dev_list[genpd])
        not_suspended == Cardinality({d \in devs : ~pm_runtime_suspended(G, d)})
    IN  IF G.status[genpd] = GPD_STATE_POWER_OFF \/ upos(G.prepared_count[genpd])
        THEN Res(G, OK)
        ELSE IF G.sd_count[genpd] > 0
        THEN Res(G, EBUSY)
        ELSE IF \E d \in devs : devconf[d].qos_flags
        THEN Res(G, EBUSY)
        ELSE IF not_suspended > 1 \/ (not_suspended = 1 /\ is_async)
        THEN Res(G, EBUSY)
        ELSE IF ~in.down_ok
        THEN Res(G, EAGAIN)
        ELSE LET p == genpd_power_off(G, genpd, in.po)
             IN  IF p.ret # OK
                 THEN Res(p.G, p.ret)
                 ELSE Res(poweroff_masters(
                              [p.G EXCEPT !.status[genpd] = GPD_STATE_POWER_OFF],
                              genpd, 1), OK)

\* in.down_ok: gov->power_down_ok() (TRUE without a governor); in.po: ->power_off()
genpd_poweroff(G, genpd, is_async, in) ==
    LET devs == Range(G.dev_list[genpd])
        not_suspended ==
            Cardinality({d \in devs : ~pm_runtime_suspended(G, d) \/ devconf[d].irq_safe})
    IN  IF G.status[genpd] = GPD_STATE_POWER_OFF \/ upos(G.prepared_count[genpd])
        THEN Res(G, OK)
        ELSE IF G.sd_count[genpd] > 0
        THEN Res(G, EBUSY)
        ELSE IF \E d \in devs : devconf[d].qos_flags
        THEN Res(G, EBUSY)
        ELSE IF not_suspended > 1 \/ (not_suspended = 1 /\ is_async)
        THEN Res(G, EBUSY)
        ELSE IF ~in.down_ok
        THEN Res(G, EAGAIN)
        ELSE LET p == genpd_power_off(G, genpd, in.po)
             IN  IF p.ret # OK
                 THEN Res(p.G, p.ret)
                 ELSE Res(poweroff_masters(
                              [p.G EXCEPT !.status[genpd] = GPD_STATE_POWER_OFF],
                              genpd, 1), OK)

\* ------------------------------------------------------------------ runtime PM

\* pm_genpd_runtime_suspend() without the test of power.irq_safe
runtime_suspend_locked(G, dev, in) ==
    LET genpd == G.pm_domain[dev]
        saved == Called(G, "save_state", dev)
        stopped == measured_if(G.disable_depth[dev] = 0,
                               [Called(saved, "stop", dev) EXCEPT !.started[dev] = FALSE],
                               "suspend", dev)
    IN  IF genpd = NULL
        THEN Res(G, EINVAL)
        ELSE IF G.disable_depth[dev] = 0 /\ ~in.stop_ok
        THEN Res(G, EBUSY)
        ELSE IF in.save # OK
        THEN Res(saved, in.save)
        ELSE IF in.stop # OK
        THEN Res(Called(Called(saved, "stop", dev), "restore_state", dev), in.stop)
        ELSE Res(mutex_unlock(genpd_poweroff(mutex_lock(stopped, genpd), genpd, FALSE, in).G,
                              genpd), OK)

\* pm_genpd_runtime_resume() that stores every measured resume time
runtime_resume_last_time(G, dev, pf) ==
    LET genpd == G.pm_domain[dev]
        w == IF devconf[dev].irq_safe THEN Res(G, OK) ELSE genpd_poweron(G, genpd, pf)
    IN  IF genpd = NULL
        THEN Res(G, EINVAL)
        ELSE IF w.ret # OK
        THEN w
        ELSE Res([Called(Called(w.G, "start", dev), "restore_state", dev)
                     EXCEPT !.started[dev] = TRUE, !.lat.resume[dev] = G.ns], OK)

\* pm_genpd_runtime_suspend() that goes on after a failed ->stop()
runtime_suspend_stop_unchecked(G, dev, in) ==
    LET genpd == G.pm_domain[dev]
        saved == Called(G, "save_state", dev)
        stopped == measured_if(G.disable_depth[dev] = 0,
                               [Called(saved, "stop", dev) EXCEPT !.started[dev] = FALSE],
                               "suspend", dev)
    IN  IF genpd = NULL
        THEN Res(G, EINVAL)
        ELSE IF G.disable_depth[dev] = 0 /\ ~in.stop_ok
        THEN Res(G, EBUSY)
        ELSE IF in.save # OK
        THEN Res(saved, in.save)
        ELSE IF devconf[dev].irq_safe
        THEN Res(stopped, in.stop)
        ELSE Res(mutex_unlock(genpd_poweroff(mutex_lock(stopped, genpd), genpd, FALSE, in).G,
                              genpd), in.stop)

\* pm_genpd_runtime_suspend() that returns what genpd_poweroff() returned
runtime_suspend_reports_poweroff(G, dev, in) ==
    LET genpd == G.pm_domain[dev]
        saved == Called(G, "save_state", dev)
        stopped == measured_if(G.disable_depth[dev] = 0,
                               [Called(saved, "stop", dev) EXCEPT !.started[dev] = FALSE],
                               "suspend", dev)
    IN  IF genpd = NULL
        THEN Res(G, EINVAL)
        ELSE IF G.disable_depth[dev] = 0 /\ ~in.stop_ok
        THEN Res(G, EBUSY)
        ELSE IF in.save # OK
        THEN Res(saved, in.save)
        ELSE IF in.stop # OK
        THEN Res(Called(Called(saved, "stop", dev), "restore_state", dev), in.stop)
        ELSE IF devconf[dev].irq_safe
        THEN Res(stopped, OK)
        ELSE unlocked(genpd_poweroff(mutex_lock(stopped, genpd), genpd, FALSE, in), genpd)

\* in: stop_ok is gov->stop_ok() (TRUE without a governor), save and stop are
\* what dev_ops.save_state and dev_ops.stop return, down_ok and po as above.
pm_genpd_runtime_suspend(G, dev, in) ==
    LET genpd == G.pm_domain[dev]
        saved == Called(G, "save_state", dev)
        stopped == measured_if(G.disable_depth[dev] = 0,
                               [Called(saved, "stop", dev) EXCEPT !.started[dev] = FALSE],
                               "suspend", dev)
    IN  IF genpd = NULL
        THEN Res(G, EINVAL)
        ELSE IF G.disable_depth[dev] = 0 /\ ~in.stop_ok
        THEN Res(G, EBUSY)
        ELSE IF in.save # OK
        THEN Res(saved, in.save)
        ELSE IF in.stop # OK
        THEN Res(Called(Called(saved, "stop", dev), "restore_state", dev), in.stop)
        ELSE IF devconf[dev].irq_safe
        THEN Res(stopped, OK)
        ELSE Res(mutex_unlock(genpd_poweroff(mutex_lock(stopped, genpd), genpd, FALSE, in).G,
                              genpd), OK)

pm_genpd_runtime_resume(G, dev, pf) ==
    LET genpd == G.pm_domain[dev]
        w == IF devconf[dev].irq_safe THEN Res(G, OK) ELSE genpd_poweron(G, genpd, pf)
    IN  IF genpd = NULL
        THEN Res(G, EINVAL)
        ELSE IF w.ret # OK
        THEN w
        ELSE Res(measured_if(~devconf[dev].irq_safe /\ G.disable_depth[dev] = 0,
                             [Called(Called(w.G, "start", dev), "restore_state", dev)
                                 EXCEPT !.started[dev] = TRUE],
                             "resume", dev), OK)

\* rpm_suspend() of the PM core around the callback
rpm_suspend(G, dev, in) ==
    LET r == pm_genpd_runtime_suspend([G EXCEPT !.rts[dev] = RPM_SUSPENDING], dev, in)
    IN  Res([r.G EXCEPT !.rts[dev] = IF r.ret = OK THEN RPM_SUSPENDED ELSE RPM_ACTIVE],
            r.ret)

\* rpm_resume() of the PM core around the callback
rpm_resume(G, dev, pf) ==
    LET r == pm_genpd_runtime_resume(G, dev, pf)
    IN  Res(IF r.ret = OK THEN [r.G EXCEPT !.rts[dev] = RPM_ACTIVE] ELSE r.G, r.ret)

\* pm_runtime_resume() of the PM core: the callback runs for an enabled,
\* suspended device
pm_runtime_resume(G, dev, pf) ==
    IF G.disable_depth[dev] > 0 \/ G.rts[dev] # RPM_SUSPENDED
    THEN G
    ELSE rpm_resume(G, dev, pf).G

\* ->power_off() is called only when the governor agrees
PoweroffInputs ==
    {[down_ok |-> FALSE, po |-> OK]} \cup [down_ok : {TRUE}, po : {OK, EBUSY, EIO}]

SuspendInputs ==
    {[stop_ok |-> FALSE, save |-> OK, stop |-> OK, down_ok |-> TRUE, po |-> OK],
     [stop_ok |-> TRUE, save |-> EIO, stop |-> OK, down_ok |-> TRUE, po |-> OK],
     [stop_ok |-> TRUE, save |-> OK, stop |-> EIO, down_ok |-> TRUE, po |-> OK]}
    \cup {[stop_ok |-> TRUE, save |-> OK, stop |-> OK, down_ok |-> in.down_ok,
            po |-> in.po] : in \in PoweroffInputs}

\* genpd_power_off_work_fn(): the work item of genpd runs
genpd_power_off_work_fn(G, genpd, in) ==
    unlocked(genpd_poweroff(mutex_lock([G EXCEPT !.work = @ \ {genpd}], genpd),
                            genpd, TRUE, in), genpd)

\* The PM core suspends an active device whose runtime PM is enabled and which
\* it does not hold for a system-wide transition (pm_runtime_get_noresume() of
\* device_prepare()).
CanRuntimeSuspend(dev) ==
    /\ pm_domain[dev] # NULL /\ disable_depth[dev] = 0
    /\ runtime_status[dev] = RPM_ACTIVE /\ level[dev] = 0

\* The PM core resumes a suspended device whose runtime PM is enabled.
CanRuntimeResume(dev) ==
    pm_domain[dev] # NULL /\ disable_depth[dev] = 0 /\ runtime_status[dev] = RPM_SUSPENDED

RuntimeSuspend(dev) ==
    /\ CanRuntimeSuspend(dev)
    /\ \E in \in SuspendInputs : Commit(rpm_suspend(Cur, dev, in).G)
    /\ UNCHANGED dpmvars

\* A ->power_on() that fails is one that is called.
FailuresHappen(G, pf) == \A g \in pf : <<"power_on", g>> \in Range(G.calls)

RuntimeResume(dev) ==
    /\ CanRuntimeResume(dev)
    /\ \E pf \in PowerOnFailures :
          \E r \in {rpm_resume(Cur, dev, pf)} :
              FailuresHappen(r.G, pf) /\ Commit(r.G)
    /\ UNCHANGED dpmvars

PowerOffWork(genpd) ==
    /\ genpd \in power_off_work
    /\ \E in \in PoweroffInputs : Commit(genpd_power_off_work_fn(Cur, genpd, in).G)
    /\ UNCHANGED dpmvars

\* ------------------------------------------------------------------ devices
genpd_alloc_dev_data(G, dev) ==
    IF G.domain_data[dev]
    THEN Res(G, EINVAL)
    ELSE Res([G EXCEPT !.domain_data[dev] = TRUE], OK)

genpd_free_dev_data(G, dev) == [G EXCEPT !.domain_data[dev] = FALSE]

\* attach is what genpd->attach_dev() returns (0 without the callback)
\* __pm_genpd_add_device() without the prepared_count test.
add_device_unguarded(G, genpd, dev, attach) ==
    LET a == genpd_alloc_dev_data(G, dev)
        att == Called(a.G, "attach_dev", dev)
    IN  IF a.ret # OK
        THEN Res(G, a.ret)
        ELSE IF attach # OK
        THEN Res(genpd_free_dev_data(att, dev), attach)
        ELSE Res([att EXCEPT !.pm_domain[dev] = genpd,
                             !.device_count[genpd] = uinc(@),
                             !.dev_list[genpd] = Append(@, dev),
                             !.nb[dev] = TRUE], OK)

__pm_genpd_add_device(G, genpd, dev, attach) ==
    LET a == genpd_alloc_dev_data(G, dev)
        att == Called(a.G, "attach_dev", dev)
    IN  IF a.ret # OK
        THEN Res(G, a.ret)
        ELSE IF upos(a.G.prepared_count[genpd])
        THEN Res(genpd_free_dev_data(a.G, dev), EAGAIN)
        ELSE IF attach # OK
        THEN Res(genpd_free_dev_data(att, dev), attach)
        ELSE Res([att EXCEPT !.pm_domain[dev] = genpd,
                             !.device_count[genpd] = uinc(@),
                             !.dev_list[genpd] = Append(@, dev),
                             !.nb[dev] = TRUE], OK)

pm_genpd_remove_device(G, genpd, dev) ==
    LET G1 == [G EXCEPT !.nb[dev] = FALSE]
    IN  IF genpd # G.pm_domain[dev]
        THEN Res(G, EINVAL)
        ELSE IF upos(G1.prepared_count[genpd])
        THEN Res([G1 EXCEPT !.nb[dev] = TRUE], EAGAIN)
        ELSE Res(genpd_free_dev_data(
                     [Called(G1, "detach_dev", dev) EXCEPT
                         !.device_count[genpd] = udec(@),
                         !.pm_domain[dev] = NULL,
                         !.dev_list[genpd] = RemoveFirst(@, dev)],
                     dev), OK)

\* ------------------------------------------------------------------ subdomains
\* pm_genpd_add_subdomain() without the search for an existing link.
add_subdomain_unsearched(G, genpd, subdomain) ==
    LET L == mutex_lock(mutex_lock(G, genpd), subdomain)
        linked == [L EXCEPT !.master_links[genpd] = Append(@, subdomain),
                            !.slave_links[subdomain] = Append(@, genpd)]
        out(H, ret) == Res(mutex_unlock(mutex_unlock(H, subdomain), genpd), ret)
    IN  IF genpd = subdomain
        THEN Res(G, EINVAL)
        ELSE IF G.status[genpd] = GPD_STATE_POWER_OFF
                /\ G.status[subdomain] # GPD_STATE_POWER_OFF
        THEN out(L, EINVAL)
        ELSE IF G.status[subdomain] # GPD_STATE_POWER_OFF
        THEN out(genpd_sd_counter_inc(linked, genpd), OK)
        ELSE out(linked, OK)

\* pm_genpd_add_subdomain() that counts the subdomain whatever its status.
add_subdomain_counts_always(G, genpd, subdomain) ==
    LET L == mutex_lock(mutex_lock(G, genpd), subdomain)
        linked == [L EXCEPT !.master_links[genpd] = Append(@, subdomain),
                            !.slave_links[subdomain] = Append(@, genpd)]
        out(H, ret) == Res(mutex_unlock(mutex_unlock(H, subdomain), genpd), ret)
    IN  IF genpd = subdomain
        THEN Res(G, EINVAL)
        ELSE IF G.status[genpd] = GPD_STATE_POWER_OFF
                /\ G.status[subdomain] # GPD_STATE_POWER_OFF
        THEN out(L, EINVAL)
        ELSE IF subdomain \in Range(G.master_links[genpd])
        THEN out(L, EINVAL)
        ELSE out(genpd_sd_counter_inc(linked, genpd), OK)

pm_genpd_add_subdomain(G, genpd, subdomain) ==
    LET L == mutex_lock(mutex_lock(G, genpd), subdomain)
        linked == [L EXCEPT !.master_links[genpd] = Append(@, subdomain),
                            !.slave_links[subdomain] = Append(@, genpd)]
        out(H, ret) == Res(mutex_unlock(mutex_unlock(H, subdomain), genpd), ret)
    IN  IF genpd = subdomain
        THEN Res(G, EINVAL)
        ELSE IF G.status[genpd] = GPD_STATE_POWER_OFF
                /\ G.status[subdomain] # GPD_STATE_POWER_OFF
        THEN out(L, EINVAL)
        ELSE IF subdomain \in Range(G.master_links[genpd])
        THEN out(L, EINVAL)
        ELSE IF G.status[subdomain] # GPD_STATE_POWER_OFF
        THEN out(genpd_sd_counter_inc(linked, genpd), OK)
        ELSE out(linked, OK)

\* pm_genpd_remove_subdomain() refusing while a system transition holds
\* either domain.
remove_subdomain_guarded(G, genpd, subdomain) ==
    LET L == mutex_lock(G, genpd)
        N == mutex_lock(L, subdomain)
        unlinked == [N EXCEPT !.master_links[genpd] = RemoveFirst(@, subdomain),
                              !.slave_links[subdomain] = RemoveFirst(@, genpd)]
        found(H) == Res(mutex_unlock(mutex_unlock(H, subdomain), genpd), OK)
    IN  IF upos(G.prepared_count[genpd]) \/ upos(G.prepared_count[subdomain])
        THEN Res(mutex_unlock(L, genpd), EAGAIN)
        ELSE IF G.master_links[subdomain] # <<>> \/ G.device_count[subdomain] # 0
        THEN Res(mutex_unlock(L, genpd), EBUSY)
        ELSE IF subdomain \notin Range(G.master_links[genpd])
        THEN Res(mutex_unlock(L, genpd), EINVAL)
        ELSE IF G.status[subdomain] # GPD_STATE_POWER_OFF
        THEN found(genpd_sd_counter_dec(unlinked, genpd))
        ELSE found(unlinked)

\* pm_genpd_remove_subdomain() that leaves sd_count of the master alone
remove_subdomain_uncounted(G, genpd, subdomain) ==
    LET L == mutex_lock(G, genpd)
        N == mutex_lock(L, subdomain)
        unlinked == [N EXCEPT !.master_links[genpd] = RemoveFirst(@, subdomain),
                              !.slave_links[subdomain] = RemoveFirst(@, genpd)]
        found(H) == Res(mutex_unlock(mutex_unlock(H, subdomain), genpd), OK)
    IN  IF G.master_links[subdomain] # <<>> \/ G.device_count[subdomain] # 0
        THEN Res(mutex_unlock(L, genpd), EBUSY)
        ELSE IF subdomain \notin Range(G.master_links[genpd])
        THEN Res(mutex_unlock(L, genpd), EINVAL)
        ELSE found(unlinked)

pm_genpd_remove_subdomain(G, genpd, subdomain) ==
    LET L == mutex_lock(G, genpd)
        N == mutex_lock(L, subdomain)
        unlinked == [N EXCEPT !.master_links[genpd] = RemoveFirst(@, subdomain),
                              !.slave_links[subdomain] = RemoveFirst(@, genpd)]
        found(H) == Res(mutex_unlock(mutex_unlock(H, subdomain), genpd), OK)
    IN  IF G.master_links[subdomain] # <<>> \/ G.device_count[subdomain] # 0
        THEN Res(mutex_unlock(L, genpd), EBUSY)
        ELSE IF subdomain \notin Range(G.master_links[genpd])
        THEN Res(mutex_unlock(L, genpd), EINVAL)
        ELSE IF G.status[subdomain] # GPD_STATE_POWER_OFF
        THEN found(genpd_sd_counter_dec(unlinked, genpd))
        ELSE found(unlinked)

\* ------------------------------------------------------------------ system sleep
RECURSIVE pm_genpd_sync_poweroff(_, _, _)
RECURSIVE sync_poweroff_masters(_, _, _, _)
RECURSIVE pm_genpd_sync_poweron(_, _)
RECURSIVE sync_poweron_masters(_, _, _)

\* The loop of pm_genpd_sync_poweroff(), from link i on.
sync_poweroff_masters(G, genpd, timed, i) ==
    IF i > Len(G.slave_links[genpd])
    THEN G
    ELSE LET master == G.slave_links[genpd][i]
         IN  sync_poweroff_masters(
                 pm_genpd_sync_poweroff(genpd_sd_counter_dec(G, master), master, timed),
                 genpd, timed, i + 1)

\* pm_genpd_sync_poweroff() that leaves the domain ACTIVE when ->power_off() fails
sync_poweroff_heeds_result(G, genpd, timed) ==
    IF G.status[genpd] = GPD_STATE_POWER_OFF
    THEN G
    ELSE IF G.suspended_count[genpd] # G.device_count[genpd] \/ G.sd_count[genpd] > 0
    THEN G
    ELSE IF G.off_ret[genpd] # OK
    THEN Called(G, "power_off", genpd)
    ELSE sync_poweroff_masters(
             [Called(G, "power_off", genpd) EXCEPT !.status[genpd] = GPD_STATE_POWER_OFF],
             genpd, timed, 1)

\* genpd_power_off(genpd, timed) as pm_genpd_sync_poweroff() calls it: the
\* result is dropped, and "if (!timed) return genpd->power_off(genpd);"
sync_power_off_call(G, genpd, timed) ==
    IF timed
    THEN genpd_power_off(G, genpd, G.off_ret[genpd]).G
    ELSE Called(G, "power_off", genpd)

pm_genpd_sync_poweroff(G, genpd, timed) ==
    IF G.status[genpd] = GPD_STATE_POWER_OFF
    THEN G
    ELSE IF G.suspended_count[genpd] # G.device_count[genpd] \/ G.sd_count[genpd] > 0
    THEN G
    ELSE sync_poweroff_masters(
             [sync_power_off_call(G, genpd, timed)
                 EXCEPT !.status[genpd] = GPD_STATE_POWER_OFF],
             genpd, timed, 1)

\* The loop of pm_genpd_sync_poweron(), from link i on.
sync_poweron_masters(G, genpd, i) ==
    IF i > Len(G.slave_links[genpd])
    THEN G
    ELSE LET master == G.slave_links[genpd][i]
         IN  sync_poweron_masters(
                 genpd_sd_counter_inc(pm_genpd_sync_poweron(G, master), master),
                 genpd, i + 1)

pm_genpd_sync_poweron(G, genpd) ==
    IF G.status[genpd] = GPD_STATE_ACTIVE
    THEN G
    ELSE [Called(sync_poweron_masters(G, genpd, 1), "power_on", genpd)
             EXCEPT !.status[genpd] = GPD_STATE_ACTIVE]

genpd_dev_active_wakeup(dev) == devconf[dev].active_wakeup

resume_needed(dev) ==
    IF ~devconf[dev].can_wakeup
    THEN FALSE
    ELSE IF devconf[dev].may_wakeup
    THEN genpd_dev_active_wakeup(dev)
    ELSE ~genpd_dev_active_wakeup(dev)

\* pm_runtime_enable() of the PM core
pm_runtime_enable(G, dev) ==
    [G EXCEPT !.disable_depth[dev] = IF @ > 0 THEN @ - 1 ELSE @]

\* pm_runtime_set_active() of the PM core: refused while runtime PM is enabled
pm_runtime_set_active(G, dev) ==
    IF G.disable_depth[dev] = 0 THEN G ELSE [G EXCEPT !.rts[dev] = RPM_ACTIVE]

\* pm_genpd_prepare() that keeps its count when pm_generic_prepare() fails
prepare_keeps_count(G, dev, in) ==
    LET genpd == G.pm_domain[dev]
        G1 == IF resume_needed(dev) THEN pm_runtime_resume(G, dev, in.pf) ELSE G
        first == G1.prepared_count[genpd] = 0
        G2 == [G1 EXCEPT
                 !.prepared_count[genpd] = uinc(@),
                 !.suspended_count[genpd] = IF first THEN 0 ELSE @,
                 !.suspend_power_off[genpd] =
                     IF first THEN G1.status[genpd] = GPD_STATE_POWER_OFF ELSE @]
        G3 == pm_runtime_resume(G2, dev, in.pf)
        G4 == Called([G3 EXCEPT !.disable_depth[dev] = @ + 1], "pm_generic_prepare", dev)
    IN  IF genpd = NULL
        THEN Res(G, EINVAL)
        ELSE IF in.wakeup_pending
        THEN Res(G, EBUSY)
        ELSE IF G2.suspend_power_off[genpd]
        THEN Res(G2, OK)
        ELSE IF in.gp # OK
        THEN Res(pm_runtime_enable(G4, dev), in.gp)
        ELSE Res(G4, OK)

\* in.wakeup_pending: pm_wakeup_pending(); in.pf: the ->power_on() that fail;
\* in.gp: what pm_generic_prepare() returns
pm_genpd_prepare(G, dev, in) ==
    LET genpd == G.pm_domain[dev]
        G1 == IF resume_needed(dev) THEN pm_runtime_resume(G, dev, in.pf) ELSE G
        first == G1.prepared_count[genpd] = 0
        G2 == [G1 EXCEPT
                 !.prepared_count[genpd] = uinc(@),
                 !.suspended_count[genpd] = IF first THEN 0 ELSE @,
                 !.suspend_power_off[genpd] =
                     IF first THEN G1.status[genpd] = GPD_STATE_POWER_OFF ELSE @]
        G3 == pm_runtime_resume(G2, dev, in.pf)
        G4 == Called([G3 EXCEPT !.disable_depth[dev] = @ + 1], "pm_generic_prepare", dev)
        left == udec(G4.prepared_count[genpd])
        G5 == pm_runtime_enable(
                  [G4 EXCEPT !.prepared_count[genpd] = left,
                             !.suspend_power_off[genpd] = IF left = 0 THEN FALSE ELSE @],
                  dev)
    IN  IF genpd = NULL
        THEN Res(G, EINVAL)
        ELSE IF in.wakeup_pending
        THEN Res(G, EBUSY)
        ELSE IF G2.suspend_power_off[genpd]
        THEN Res(G2, OK)
        ELSE IF in.gp # OK
        THEN Res(G5, in.gp)
        ELSE Res(G4, OK)

\* pm_genpd_complete() that leaves suspend_power_off as it is
complete_keeps_latch(G, dev) ==
    LET genpd == G.pm_domain[dev]
        run_complete == ~G.suspend_power_off[genpd]
        G1 == [G EXCEPT !.prepared_count[genpd] = udec(@)]
    IN  IF genpd = NULL
        THEN G
        ELSE IF run_complete
        THEN pm_runtime_enable(
                 pm_runtime_set_active(Called(G1, "pm_generic_complete", dev), dev), dev)
        ELSE G1

pm_genpd_complete(G, dev) ==
    LET genpd == G.pm_domain[dev]
        run_complete == ~G.suspend_power_off[genpd]
        left == udec(G.prepared_count[genpd])
        G1 == [G EXCEPT !.prepared_count[genpd] = left,
                        !.suspend_power_off[genpd] = IF left = 0 THEN FALSE ELSE @]
    IN  IF genpd = NULL
        THEN G
        ELSE IF run_complete
        THEN pm_runtime_enable(
                 pm_runtime_set_active(Called(G1, "pm_generic_complete", dev), dev), dev)
        ELSE G1

\* pm_genpd_suspend() and the callbacks of the same shape: nothing when the
\* domain was off at prepare, else the pm_generic_* callback
genpd_delegate(G, dev, generic) ==
    LET genpd == G.pm_domain[dev]
    IN  IF genpd = NULL
        THEN Res(G, EINVAL)
        ELSE IF G.suspend_power_off[genpd]
        THEN Res(G, OK)
        ELSE Res(Called(G, generic, dev), OK)

pm_genpd_suspend(G, dev) == genpd_delegate(G, dev, "pm_generic_suspend")
pm_genpd_suspend_late(G, dev) == genpd_delegate(G, dev, "pm_generic_suspend_late")
pm_genpd_resume_early(G, dev) == genpd_delegate(G, dev, "pm_generic_resume_early")
pm_genpd_resume(G, dev) == genpd_delegate(G, dev, "pm_generic_resume")
pm_genpd_freeze(G, dev) == genpd_delegate(G, dev, "pm_generic_freeze")
pm_genpd_freeze_late(G, dev) == genpd_delegate(G, dev, "pm_generic_freeze_late")
pm_genpd_thaw_early(G, dev) == genpd_delegate(G, dev, "pm_generic_thaw_early")
pm_genpd_thaw(G, dev) == genpd_delegate(G, dev, "pm_generic_thaw")

wakeup_active(dev) == devconf[dev].wakeup_path /\ genpd_dev_active_wakeup(dev)

\* pm_genpd_suspend_noirq() without the test of the wakeup path
suspend_noirq_no_wakeup(G, dev) ==
    LET genpd == G.pm_domain[dev]
        G1 == [Called(G, "stop", dev) EXCEPT
                 !.started[dev] = FALSE,
                 !.suspended_count[genpd] = uinc(@)]
    IN  IF genpd = NULL
        THEN Res(G, EINVAL)
        ELSE IF G.suspend_power_off[genpd]
        THEN Res(G, OK)
        ELSE Res(pm_genpd_sync_poweroff(G1, genpd, TRUE), OK)

pm_genpd_suspend_noirq(G, dev) ==
    LET genpd == G.pm_domain[dev]
        G1 == [Called(G, "stop", dev) EXCEPT
                 !.started[dev] = FALSE,
                 !.suspended_count[genpd] = uinc(@)]
    IN  IF genpd = NULL
        THEN Res(G, EINVAL)
        ELSE IF G.suspend_power_off[genpd] \/ wakeup_active(dev)
        THEN Res(G, OK)
        ELSE Res(pm_genpd_sync_poweroff(G1, genpd, TRUE), OK)

\* genpd->domain.ops.poweroff_noirq = pm_genpd_suspend_noirq
pm_genpd_poweroff_noirq(G, dev) == pm_genpd_suspend_noirq(G, dev)

pm_genpd_resume_noirq(G, dev) ==
    LET genpd == G.pm_domain[dev]
        G1 == pm_genpd_sync_poweron(G, genpd)
    IN  IF genpd = NULL
        THEN Res(G, EINVAL)
        ELSE IF G.suspend_power_off[genpd] \/ wakeup_active(dev)
        THEN Res(G, OK)
        ELSE Res([Called(G1, "start", dev) EXCEPT
                    !.suspended_count[genpd] = udec(@),
                    !.started[dev] = TRUE], OK)

\* pm_genpd_freeze_noirq() that counts the device as suspended
freeze_noirq_counted(G, dev) ==
    LET genpd == G.pm_domain[dev]
    IN  IF genpd = NULL
        THEN Res(G, EINVAL)
        ELSE IF G.suspend_power_off[genpd]
        THEN Res(G, OK)
        ELSE Res([Called(G, "stop", dev) EXCEPT !.started[dev] = FALSE,
                                                 !.suspended_count[genpd] = uinc(@)], OK)

pm_genpd_freeze_noirq(G, dev) ==
    LET genpd == G.pm_domain[dev]
    IN  IF genpd = NULL
        THEN Res(G, EINVAL)
        ELSE IF G.suspend_power_off[genpd]
        THEN Res(G, OK)
        ELSE Res([Called(G, "stop", dev) EXCEPT !.started[dev] = FALSE], OK)

pm_genpd_thaw_noirq(G, dev) ==
    LET genpd == G.pm_domain[dev]
    IN  IF genpd = NULL
        THEN Res(G, EINVAL)
        ELSE IF G.suspend_power_off[genpd]
        THEN Res(G, OK)
        ELSE Res([Called(G, "start", dev) EXCEPT !.started[dev] = TRUE], OK)

pm_genpd_restore_noirq(G, dev) ==
    LET genpd == G.pm_domain[dev]
        first == G.suspended_count[genpd] = 0
        G1 == [G EXCEPT !.suspended_count[genpd] = uinc(@)]
        G2 == IF first THEN [G1 EXCEPT !.status[genpd] = GPD_STATE_POWER_OFF] ELSE G1
        G3 == pm_genpd_sync_poweron(G2, genpd)
    IN  IF genpd = NULL
        THEN Res(G, EINVAL)
        ELSE IF first /\ G.suspend_power_off[genpd]
        THEN Res(Called(G2, "power_off", genpd), OK)
        ELSE IF G.suspend_power_off[genpd]
        THEN Res(G2, OK)
        ELSE Res([Called(G3, "start", dev) EXCEPT !.started[dev] = TRUE], OK)

\* genpd_syscore_switch(): the counting is not tested against anything and the
\* power is switched without the latency measurement (timed is false).
genpd_syscore_switch(G, dev, suspend) ==
    LET genpd == G.pm_domain[dev]
    IN  IF genpd = NULL
        THEN G
        ELSE IF suspend
        THEN pm_genpd_sync_poweroff([G EXCEPT !.suspended_count[genpd] = uinc(@)], genpd, FALSE)
        ELSE [pm_genpd_sync_poweron(G, genpd) EXCEPT !.suspended_count[genpd] = udec(@)]

pm_genpd_syscore_poweroff(G, dev) == genpd_syscore_switch(G, dev, TRUE)

pm_genpd_syscore_poweron(G, dev) == genpd_syscore_switch(G, dev, FALSE)

\* ------------------------------------------------------------------ the sleep sequence
\* The PM core (drivers/base/power/main.c) runs one stage of a transition for
\* every device before the next stage: prepare, suspend, suspend_late,
\* suspend_noirq and then back resume_noirq, resume_early, resume, complete (or
\* the freeze/thaw/restore callbacks).  level[dev] counts the suspend-side
\* callbacks of the device that are not undone yet; a transition that fails or is
\* abandoned turns to its resume side from the stage it reached.

Bound(dev) == pm_domain[dev] # NULL

\* dev may run the suspend-side callback that takes it from level n to n + 1
CanDown(dev, n) ==
    /\ Bound(dev) /\ level[dev] = n /\ ~resuming
    /\ \A d \in Devs :
          (level[d] > 0 \/ (n > 0 /\ Bound(d))) => level[d] \in {n, n + 1}

\* dev may run the resume-side callback that takes it from level n to n - 1
CanUp(dev, n) ==
    /\ Bound(dev) /\ level[dev] = n
    /\ \A d \in Devs : level[d] <= n
    /\ (pm_cycle = "restore" => (resuming \/ n = 4))

\* One callback has run for dev: r is its result, to the level it leads to.
SleepStep(dev, r, to, cycle, turn) ==
    \E res \in {r} :
        LET failed == res.ret \notin {OK, POSITIVE}
            lv == IF failed THEN level ELSE [level EXCEPT ![dev] = to]
            idle == \A d \in Devs : lv[d] = 0
        IN  /\ Commit(res.G)
            /\ level' = lv
            /\ pm_cycle' = IF idle THEN "none" ELSE cycle
            /\ resuming' = (~idle /\ (turn \/ failed))

Down(dev, r) == SleepStep(dev, r, level[dev] + 1, pm_cycle, FALSE)
Up(dev, r) == SleepStep(dev, r, level[dev] - 1, pm_cycle, TRUE)

\* __pm_runtime_disable() of the PM core before the late callbacks
dpm_disable(G, dev) == [G EXCEPT !.disable_depth[dev] = @ + 1]

\* pm_runtime_enable() of the PM core after the early callbacks
dpm_enable(r, dev) == Res(pm_runtime_enable(r.G, dev), r.ret)

\* gps: what pm_generic_prepare() may return
PrepareInputs(gps) ==
    {[wakeup_pending |-> TRUE, pf |-> {}, gp |-> OK]}
    \cup [wakeup_pending : {FALSE}, pf : PowerOnFailures, gp : gps]

\* cycles: the transitions the system may start
Prepare(dev, cycles, gps) ==
    /\ CanDown(dev, 0)
    /\ \E in \in PrepareInputs(gps), c \in IF pm_cycle = "none" THEN cycles ELSE {pm_cycle} :
          \E r \in {pm_genpd_prepare(Cur, dev, in)} :
              /\ FailuresHappen(r.G, in.pf)
              /\ in.gp # OK => r.ret = in.gp
              /\ SleepStep(dev, r, 1, c, FALSE)

Suspend(dev) ==
    pm_cycle = "suspend" /\ CanDown(dev, 1) /\ Down(dev, pm_genpd_suspend(Cur, dev))

SuspendLate(dev) ==
    /\ pm_cycle = "suspend" /\ CanDown(dev, 2)
    /\ Down(dev, pm_genpd_suspend_late(dpm_disable(Cur, dev), dev))

SuspendNoirq(dev) ==
    pm_cycle = "suspend" /\ CanDown(dev, 3) /\ Down(dev, pm_genpd_suspend_noirq(Cur, dev))

ResumeNoirq(dev) ==
    pm_cycle = "suspend" /\ CanUp(dev, 4) /\ Up(dev, pm_genpd_resume_noirq(Cur, dev))

ResumeEarly(dev) ==
    /\ pm_cycle \in {"suspend", "restore"} /\ CanUp(dev, 3)
    /\ Up(dev, dpm_enable(pm_genpd_resume_early(Cur, dev), dev))

Resume(dev) ==
    /\ pm_cycle \in {"suspend", "restore"} /\ CanUp(dev, 2)
    /\ Up(dev, pm_genpd_resume(Cur, dev))

Freeze(dev) ==
    pm_cycle \in {"thaw", "restore"} /\ CanDown(dev, 1) /\ Down(dev, pm_genpd_freeze(Cur, dev))

FreezeLate(dev) ==
    /\ pm_cycle \in {"thaw", "restore"} /\ CanDown(dev, 2)
    /\ Down(dev, pm_genpd_freeze_late(dpm_disable(Cur, dev), dev))

FreezeNoirq(dev) ==
    /\ pm_cycle \in {"thaw", "restore"} /\ CanDown(dev, 3)
    /\ Down(dev, pm_genpd_freeze_noirq(Cur, dev))

ThawNoirq(dev) ==
    pm_cycle = "thaw" /\ CanUp(dev, 4) /\ Up(dev, pm_genpd_thaw_noirq(Cur, dev))

ThawEarly(dev) ==
    /\ pm_cycle = "thaw" /\ CanUp(dev, 3)
    /\ Up(dev, dpm_enable(pm_genpd_thaw_early(Cur, dev), dev))

Thaw(dev) ==
    pm_cycle = "thaw" /\ CanUp(dev, 2) /\ Up(dev, pm_genpd_thaw(Cur, dev))

RestoreNoirq(dev) ==
    pm_cycle = "restore" /\ CanUp(dev, 4) /\ Up(dev, pm_genpd_restore_noirq(Cur, dev))

Complete(dev) ==
    CanUp(dev, 1) /\ Up(dev, Res(pm_genpd_complete(Cur, dev), OK))

\* The system core stage, between the noirq callbacks of the suspend and those
\* of the resume: the driver of a device that has to work up to there calls
\* pm_genpd_syscore_poweroff() for it, and pm_genpd_syscore_poweron() on the
\* way back.
SyscorePoweroff(dev) ==
    /\ pm_cycle = "suspend" /\ CanDown(dev, 4)
    /\ Down(dev, Res(pm_genpd_syscore_poweroff(Cur, dev), OK))

SyscorePoweron(dev) ==
    /\ pm_cycle = "suspend" /\ CanUp(dev, 5)
    /\ Up(dev, Res(pm_genpd_syscore_poweron(Cur, dev), OK))

\* ------------------------------------------------------------------ the system
\* The threads that may be in genpd_poweron(); the work items run on pm_wq.
Threads == {"t1", "t2"}

\* no genpd_dev_pm_attach() or genpd_dev_pm_detach() of the device has run
NoProbe ==
    [op |-> "none", pc |-> "idle", pd |-> NULL, i |-> 1, ret |-> OK, tries |-> 0,
     waited |-> 0, on |-> NULL, result |-> NULL]

\* the thread is in no pm_genpd_add_subdomain() or pm_genpd_remove_subdomain()
NoEdit == [op |-> "none", pc |-> "idle", genpd |-> NULL, subdomain |-> NULL]

\* pm_genpd_init(): each domain starts on or off, with no link and no device;
\* the attributes of the devices are one of confs and do not change.
InitWith(confs) ==
    /\ status \in {[g \in Dom |-> s] : s \in {GPD_STATE_ACTIVE, GPD_STATE_POWER_OFF}}
    /\ sd_count = [g \in Dom |-> 0]
    /\ device_count = [g \in Dom |-> 0]
    /\ suspended_count = [g \in Dom |-> 0]
    /\ prepared_count = [g \in Dom |-> 0]
    /\ suspend_power_off = [g \in Dom |-> FALSE]
    /\ master_links = [g \in Dom |-> <<>>]
    /\ slave_links = [g \in Dom |-> <<>>]
    /\ dev_list = [g \in Dom |-> <<>>]
    /\ power_off_work = {}
    /\ pm_domain = [d \in Devs |-> NULL]
    /\ domain_data = [d \in Devs |-> FALSE]
    /\ nb_registered = [d \in Devs |-> FALSE]
    /\ runtime_status = [d \in Devs |-> RPM_SUSPENDED]
    /\ disable_depth = [d \in Devs |-> 0]
    /\ started = [d \in Devs |-> FALSE]
    /\ devconf \in confs
    /\ warned = FALSE
    /\ level = [d \in Devs |-> 0]
    /\ pm_cycle = "none"
    /\ resuming = FALSE
    /\ mutex = [g \in Dom |-> NULL]
    /\ walk = [t \in Threads |-> <<>>]
    /\ off = [g \in Dom |-> [pc |-> "idle", j |-> 1]]
    /\ probe = [d \in Devs |-> NoProbe]
    /\ edit = [t \in Threads |-> NoEdit]

Init == InitWith({[d \in Devs |-> PlainDev]})

\* The callers add a link only from a domain to one after it in this order, which
\* keeps the graph acyclic (pm_genpd_add_subdomain() itself does not check).
Rank == [g \in Dom |-> CASE g = "A" -> 1 [] g = "B" -> 2 [] OTHER -> 3]

AttachResults == {OK, EIO}

\* A call that is refused, or whose ->attach_dev() fails, leaves everything as
\* it was; the steps are the calls that succeed.
AddDevice(D) ==
    \E g \in D, d \in Devs :
        \E r \in {__pm_genpd_add_device(Cur, g, d, OK)} :
            r.ret = OK /\ Commit(r.G) /\ UNCHANGED dpmvars

\* The PM core does not let go of a device that is part of the transition.
RemoveDevice(D) ==
    \E g \in D, d \in Devs :
        \E r \in {pm_genpd_remove_device(Cur, g, d)} :
            r.ret = OK /\ level[d] = 0 /\ Commit(r.G) /\ UNCHANGED dpmvars

AddSubdomain(D) ==
    \E g, s \in D :
        \E r \in {pm_genpd_add_subdomain(Cur, g, s)} :
            Rank[g] <= Rank[s] /\ r.ret = OK /\ Commit(r.G) /\ UNCHANGED dpmvars

RemoveSubdomain(D) ==
    \E g, s \in D :
        \E r \in {pm_genpd_remove_subdomain(Cur, g, s)} :
            r.ret = OK /\ Commit(r.G) /\ UNCHANGED dpmvars

RuntimePM == \E d \in Devs : RuntimeSuspend(d) \/ RuntimeResume(d)

DeferredWork == \E g \in Dom : PowerOffWork(g)

\* System suspend and resume (or its abandoning).
SuspendResume ==
    \E d \in Devs :
        \/ Suspend(d) \/ SuspendLate(d) \/ SuspendNoirq(d)
        \/ ResumeNoirq(d) \/ ResumeEarly(d) \/ Resume(d)

\* The freeze side of hibernation.
FreezeSide == \E d \in Devs : Freeze(d) \/ FreezeLate(d) \/ FreezeNoirq(d)

\* The thaw that follows the snapshot (or the abandoning of the freeze).
ThawSide == \E d \in Devs : ThawNoirq(d) \/ ThawEarly(d) \/ Thaw(d)

\* The restore side of hibernation, in the restored kernel.
RestoreSide == \E d \in Devs : RestoreNoirq(d) \/ ResumeEarly(d) \/ Resume(d)

Errno == {OK, EIO}

\* Runtime PM and topology changes on three domains, no system sleep.
Next ==
    \/ AddDevice(Dom)
    \/ RemoveDevice(Dom)
    \/ AddSubdomain(Dom)
    \/ RemoveSubdomain(Dom)
    \/ RuntimePM
    \/ DeferredWork

Spec == Init /\ [][Next]_vars

\* The domains of the specifications with system sleep.
SleepDom == {"A", "B"}

Runtime(D) ==
    \/ AddDevice(D)
    \/ RemoveDevice(D)
    \/ AddSubdomain(D)
    \/ RemoveSubdomain(D)
    \/ RuntimePM
    \/ DeferredWork

\* Runtime PM and topology changes on the domains A and B.
SpecPair == Init /\ [][Runtime(SleepDom)]_vars

\* The same with system suspend and the freeze and thaw of hibernation.
NextSleep ==
    \/ Runtime(SleepDom)
    \/ \E d \in Devs : Prepare(d, {"suspend", "thaw"}, Errno) \/ Complete(d)
    \/ SuspendResume
    \/ FreezeSide
    \/ ThawSide

SpecSleep == Init /\ [][NextSleep]_vars

\* The same with the restore from hibernation.
NextRestore ==
    \/ Runtime(SleepDom)
    \/ \E d \in Devs : Prepare(d, {"restore"}, Errno) \/ Complete(d)
    \/ FreezeSide
    \/ RestoreSide

SpecRestore == Init /\ [][NextRestore]_vars

\* System suspend with drivers whose ->prepare() may return a positive value.
NextDirect ==
    \/ Runtime(SleepDom)
    \/ \E d \in Devs : Prepare(d, {"suspend"}, Errno \cup {POSITIVE}) \/ Complete(d)
    \/ SuspendResume

SpecDirect == Init /\ [][NextDirect]_vars

\* Links added between any two domains, by callers that do not keep the order.
AddAnySubdomain ==
    \E g, s \in Dom :
        \E r \in {pm_genpd_add_subdomain(Cur, g, s)} :
            r.ret = OK /\ Commit(r.G) /\ UNCHANGED dpmvars

NextLinks ==
    \/ AddAnySubdomain
    \/ RemoveSubdomain(Dom)

SpecLinks == Init /\ [][NextLinks]_vars

\* ------------------------------------------------------------------ IRQ-safe devices
\* pm_runtime_irq_safe() was called for the device before it was added.
IrqSafeDev == [PlainDev EXCEPT !.irq_safe = TRUE]

\* Runtime PM and topology changes with devices that may be IRQ-safe.
SpecIrqSafe == InitWith([Devs -> {PlainDev, IrqSafeDev}]) /\ [][Next]_vars

\* ------------------------------------------------------------------ wakeup devices
\* A device that may wake the system up and has to stay powered for that:
\* device_prepare() of the PM core sets power.wakeup_path from
\* device_may_wakeup(), and ->active_wakeup() of the domain answers true.
WakeDev ==
    [PlainDev EXCEPT !.can_wakeup = TRUE, !.may_wakeup = TRUE,
                     !.active_wakeup = TRUE, !.wakeup_path = TRUE]

\* System suspend, freeze and thaw with the wakeup device d1, and d2 plain or
\* a wakeup device too.
SpecWakeup ==
    InitWith({[d \in Devs |-> IF d = "d1" THEN WakeDev ELSE c] : c \in {PlainDev, WakeDev}})
        /\ [][NextSleep]_vars

\* ------------------------------------------------------------------ power-off policy
\* dev_pm_qos_flags() answers PM_QOS_FLAGS_SOME or PM_QOS_FLAGS_ALL for
\* PM_QOS_FLAG_NO_POWER_OFF | PM_QOS_FLAG_REMOTE_WAKEUP
QosDev == [PlainDev EXCEPT !.qos_flags = TRUE]

NextPolicy ==
    \/ Runtime(SleepDom)
    \/ \E d \in Devs : Prepare(d, {"suspend"}, {OK}) \/ Complete(d)

\* Runtime PM and topology changes on A and B, with devices that may be
\* IRQ-safe or hold a PM QoS flag, and devices prepared for a system suspend.
SpecPolicy == InitWith([Devs -> {PlainDev, IrqSafeDev, QosDev}]) /\ [][NextPolicy]_vars

\* ------------------------------------------------------------------ system core stage
\* The devices whose drivers switch the power in the system core stage.
SyscoreDevs == {"d1"}

NextSyscore ==
    \/ Runtime(SleepDom)
    \/ \E d \in Devs : Prepare(d, {"suspend"}, {OK}) \/ Complete(d)
    \/ SuspendResume
    \/ \E d \in SyscoreDevs : SyscorePoweroff(d) \/ SyscorePoweron(d)

\* System suspend down to the system core stage and back, where d1 is a plain
\* device or a wakeup device.
SpecSyscore ==
    InitWith({[d \in Devs |-> IF d = "d1" THEN c ELSE PlainDev] : c \in {PlainDev, WakeDev}})
        /\ [][NextSyscore]_vars

\* ------------------------------------------------------------------ interleaved power on and off
\* genpd_poweron() and the power_off_work of the domains, one shared access at
\* a step.  A frame of walk[t] is one genpd_poweron(genpd) that holds the lock
\* of genpd: pc is where __genpd_poweron() is, i the link of its loop.
Frame(genpd) == [genpd |-> genpd, pc |-> "check", i |-> 1]

Top(t) == walk[t][Len(walk[t])]

At(t, pc) == walk[t] # <<>> /\ Top(t).pc = pc

\* mutex_lock() that returns whoever holds the mutex
mutex_not_waited(genpd) == TRUE

\* mutex_lock() returns when no thread holds the mutex
mutex_is_free(genpd) == mutex[genpd] = NULL

SetTop(t, pc, i) ==
    walk' = [walk EXCEPT ![t][Len(walk[t])] = [@ EXCEPT !.pc = pc, !.i = i]]

\* After link i of its loop, __genpd_poweron(genpd) goes on to the next link
\* or to genpd_power_on().
AfterLink(genpd, i) == IF i > Len(slave_links[genpd]) THEN "power" ELSE "inc"

\* genpd_poweron(genpd) is called (by genpd_dev_pm_attach()) and gets the lock
StartPoweron(t, genpd) ==
    /\ walk[t] = <<>> /\ mutex_is_free(genpd)
    /\ mutex' = [mutex EXCEPT ![genpd] = t]
    /\ walk' = [walk EXCEPT ![t] = <<Frame(genpd)>>]
    /\ UNCHANGED <<genpdvars, sleepvars, linkvars, bindvars, rpmvars, devconf, dpmvars, probe, edit, off>>

\* the test at the head of __genpd_poweron()
WalkCheck(t) ==
    /\ At(t, "check")
    /\ LET genpd == Top(t).genpd
       IN  IF status[genpd] = GPD_STATE_ACTIVE
              \/ (upos(prepared_count[genpd]) /\ suspend_power_off[genpd])
           THEN SetTop(t, "return", 1)
           ELSE SetTop(t, AfterLink(genpd, 1), 1)
    /\ UNCHANGED <<genpdvars, sleepvars, linkvars, bindvars, rpmvars, devconf, dpmvars, probe, edit,
                   mutex, off>>

\* genpd_sd_counter_inc(link->master)
WalkInc(t) ==
    /\ At(t, "inc")
    /\ Store(genpd_sd_counter_inc(Cur, slave_links[Top(t).genpd][Top(t).i]))
    /\ SetTop(t, "lock", Top(t).i)
    /\ UNCHANGED <<dpmvars, probe, edit, mutex, off>>

\* genpd_poweron(link->master) gets the lock of the master
WalkLock(t) ==
    /\ At(t, "lock")
    /\ LET master == slave_links[Top(t).genpd][Top(t).i]
       IN  /\ mutex_is_free(master)
           /\ mutex' = [mutex EXCEPT ![master] = t]
           /\ walk' = [walk EXCEPT ![t] = Append(@, Frame(master))]
    /\ UNCHANGED <<genpdvars, sleepvars, linkvars, bindvars, rpmvars, devconf, dpmvars, probe, edit, off>>

\* genpd_power_on() succeeds and the status is set
WalkPower(t) ==
    /\ At(t, "power")
    /\ Store([genpd_power_on(Cur, Top(t).genpd, {}).G
                 EXCEPT !.status[Top(t).genpd] = GPD_STATE_ACTIVE])
    /\ SetTop(t, "return", 1)
    /\ UNCHANGED <<dpmvars, probe, edit, mutex, off>>

\* genpd_poweron() drops the lock and returns 0, to the loop of its caller
WalkReturn(t) ==
    /\ At(t, "return")
    /\ mutex' = [mutex EXCEPT ![Top(t).genpd] = NULL]
    /\ LET n == Len(walk[t])
           caller == walk[t][n - 1]
           next == [genpd |-> caller.genpd,
                    pc |-> AfterLink(caller.genpd, caller.i + 1), i |-> caller.i + 1]
       IN  walk' = [walk EXCEPT ![t] =
                      IF n = 1 THEN <<>> ELSE Append(SubSeq(walk[t], 1, n - 2), next)]
    /\ UNCHANGED <<genpdvars, sleepvars, linkvars, bindvars, rpmvars, devconf, dpmvars, probe, edit, off>>

SetOff(genpd, pc, j) == off' = [off EXCEPT ![genpd] = [pc |-> pc, j |-> j]]

\* pm_wq starts the work item of genpd
RunWork(genpd) ==
    /\ genpd \in power_off_work /\ off[genpd].pc = "idle"
    /\ Store([Cur EXCEPT !.work = @ \ {genpd}])
    /\ SetOff(genpd, "lock", 1)
    /\ UNCHANGED <<dpmvars, probe, edit, mutex, walk>>

\* genpd_power_off_work_fn() gets the lock
WorkLock(genpd) ==
    /\ off[genpd].pc = "lock" /\ mutex_is_free(genpd)
    /\ mutex' = [mutex EXCEPT ![genpd] = "pm_wq"]
    /\ SetOff(genpd, "check", 1)
    /\ UNCHANGED <<genpdvars, sleepvars, linkvars, bindvars, rpmvars, devconf, dpmvars, probe, edit, walk>>

\* genpd_poweroff(genpd, true) up to the governor, which agrees
WorkCheck(genpd) ==
    /\ off[genpd].pc = "check"
    /\ LET devs == Range(dev_list[genpd])
           not_suspended ==
               Cardinality({d \in devs : ~pm_runtime_suspended(Cur, d) \/ devconf[d].irq_safe})
       IN  IF status[genpd] = GPD_STATE_POWER_OFF \/ upos(prepared_count[genpd])
           THEN SetOff(genpd, "unlock", 1)
           ELSE IF sd_count[genpd] > 0
           THEN SetOff(genpd, "unlock", 1)
           ELSE IF \E d \in devs : devconf[d].qos_flags
           THEN SetOff(genpd, "unlock", 1)
           ELSE IF not_suspended >= 1
           THEN SetOff(genpd, "unlock", 1)
           ELSE SetOff(genpd, "recheck", 1)
    /\ UNCHANGED <<genpdvars, sleepvars, linkvars, bindvars, rpmvars, devconf, dpmvars, probe, edit,
                   mutex, walk>>

\* the second read of sd_count, before ->power_off()
WorkRecheck(genpd) ==
    /\ off[genpd].pc = "recheck"
    /\ IF sd_count[genpd] > 0
       THEN SetOff(genpd, "unlock", 1)
       ELSE SetOff(genpd, "off", 1)
    /\ UNCHANGED <<genpdvars, sleepvars, linkvars, bindvars, rpmvars, devconf, dpmvars, probe, edit,
                   mutex, walk>>

\* ->power_off() succeeds and the status is set
WorkOff(genpd) ==
    /\ off[genpd].pc = "off"
    /\ Store([genpd_power_off(Cur, genpd, OK).G EXCEPT !.status[genpd] = GPD_STATE_POWER_OFF])
    /\ SetOff(genpd, "drop", 1)
    /\ UNCHANGED <<dpmvars, probe, edit, mutex, walk>>

\* the loop over the masters: genpd_sd_counter_dec() and
\* genpd_queue_power_off_work() for one link
WorkDrop(genpd) ==
    /\ off[genpd].pc = "drop"
    /\ IF off[genpd].j > Len(slave_links[genpd])
       THEN /\ SetOff(genpd, "unlock", 1)
            /\ UNCHANGED <<genpdvars, sleepvars, linkvars, bindvars, rpmvars, devconf>>
       ELSE LET master == slave_links[genpd][off[genpd].j]
            IN  /\ Store(genpd_queue_power_off_work(genpd_sd_counter_dec(Cur, master),
                                                    master))
                /\ SetOff(genpd, "drop", off[genpd].j + 1)
    /\ UNCHANGED <<dpmvars, probe, edit, mutex, walk>>

\* genpd_power_off_work_fn() drops the lock
WorkUnlock(genpd) ==
    /\ off[genpd].pc = "unlock"
    /\ mutex' = [mutex EXCEPT ![genpd] = NULL]
    /\ SetOff(genpd, "idle", 1)
    /\ UNCHANGED <<genpdvars, sleepvars, linkvars, bindvars, rpmvars, devconf, dpmvars, probe, edit, walk>>

\* genpd_poweroff_unused(): the work of every domain is queued
PoweroffUnused ==
    /\ Store([Cur EXCEPT !.work = Dom])
    /\ UNCHANGED <<dpmvars, stepvars>>

\* No thread is in genpd_poweron() and no work item runs.
Quiet ==
    /\ \A t \in Threads : walk[t] = <<>>
    /\ \A g \in Dom : off[g].pc = "idle"

WalkStep(t) ==
    \/ \E g \in Dom : StartPoweron(t, g)
    \/ WalkCheck(t) \/ WalkInc(t) \/ WalkLock(t) \/ WalkPower(t) \/ WalkReturn(t)

WorkStep(genpd) ==
    \/ RunWork(genpd) \/ WorkLock(genpd) \/ WorkCheck(genpd) \/ WorkRecheck(genpd)
    \/ WorkOff(genpd) \/ WorkDrop(genpd) \/ WorkUnlock(genpd)

\* Links are added while nothing runs; then power-on walks and power-off work
\* items interleave, with no device, no system sleep and no failing callback.
NextSteps ==
    \/ Quiet /\ AddSubdomain(Dom)
    \/ PoweroffUnused
    \/ \E t \in Threads : WalkStep(t)
    \/ \E g \in Dom : WorkStep(g)

SpecSteps == Init /\ [][NextSteps]_vars

\* ------------------------------------------------------------------ interleaved subdomain edits
\* pm_genpd_add_subdomain() and pm_genpd_remove_subdomain(), one lock operation
\* at a step; what they do to the links and to sd_count is done with both locks
\* held.
Editing(t, op, pc) == edit[t].op = op /\ edit[t].pc = pc

EditAt(t, pc) == edit[t].op # "none" /\ edit[t].pc = pc

SetEdit(t, pc) == edit' = [edit EXCEPT ![t].pc = pc]

\* The call is made; "genpd == subdomain" is refused before any lock is taken.
EditStart(t, op, genpd, subdomain) ==
    /\ edit[t].op = "none" /\ walk[t] = <<>>
    /\ op = "add" => genpd # subdomain
    /\ edit' = [edit EXCEPT ![t] = [op |-> op, pc |-> "lock_master",
                                    genpd |-> genpd, subdomain |-> subdomain]]
    /\ UNCHANGED <<genpdvars, sleepvars, linkvars, bindvars, rpmvars, devconf, dpmvars, probe,
                   mutex, walk, off>>

\* mutex_lock(&genpd->lock)
EditLockMaster(t) ==
    /\ EditAt(t, "lock_master") /\ mutex_is_free(edit[t].genpd)
    /\ mutex' = [mutex EXCEPT ![edit[t].genpd] = t]
    /\ SetEdit(t, IF edit[t].op = "add" THEN "lock_sub" ELSE "find")
    /\ UNCHANGED <<genpdvars, sleepvars, linkvars, bindvars, rpmvars, devconf, dpmvars, probe,
                   walk, off>>

\* pm_genpd_remove_subdomain(): the test of the subdomain and the search for
\* the link, under the lock of the master
EditFind(t) ==
    /\ Editing(t, "remove", "find")
    /\ LET genpd == edit[t].genpd
           subdomain == edit[t].subdomain
       IN  IF master_links[subdomain] # <<>> \/ device_count[subdomain] # 0
           THEN SetEdit(t, "unlock_master")
           ELSE IF subdomain \notin Range(master_links[genpd])
           THEN SetEdit(t, "unlock_master")
           ELSE SetEdit(t, "lock_sub")
    /\ UNCHANGED <<genpdvars, sleepvars, linkvars, bindvars, rpmvars, devconf, dpmvars, probe,
                   mutex, walk, off>>

\* mutex_lock_nested(&subdomain->lock, SINGLE_DEPTH_NESTING)
EditLockSub(t) ==
    /\ EditAt(t, "lock_sub") /\ mutex_is_free(edit[t].subdomain)
    /\ mutex' = [mutex EXCEPT ![edit[t].subdomain] = t]
    /\ SetEdit(t, "linked")
    /\ UNCHANGED <<genpdvars, sleepvars, linkvars, bindvars, rpmvars, devconf, dpmvars, probe,
                   walk, off>>

\* the tests, the link and the count of the call, with both locks held
EditLinks(t) ==
    /\ EditAt(t, "linked")
    /\ Store(IF edit[t].op = "add"
             THEN pm_genpd_add_subdomain(Cur, edit[t].genpd, edit[t].subdomain).G
             ELSE pm_genpd_remove_subdomain(Cur, edit[t].genpd, edit[t].subdomain).G)
    /\ SetEdit(t, "unlock_sub")
    /\ UNCHANGED <<dpmvars, probe, mutex, walk, off>>

\* mutex_unlock(&subdomain->lock)
EditUnlockSub(t) ==
    /\ EditAt(t, "unlock_sub")
    /\ mutex' = [mutex EXCEPT ![edit[t].subdomain] = NULL]
    /\ SetEdit(t, "unlock_master")
    /\ UNCHANGED <<genpdvars, sleepvars, linkvars, bindvars, rpmvars, devconf, dpmvars, probe,
                   walk, off>>

\* mutex_unlock(&genpd->lock) and the return
EditUnlockMaster(t) ==
    /\ EditAt(t, "unlock_master")
    /\ mutex' = [mutex EXCEPT ![edit[t].genpd] = NULL]
    /\ edit' = [edit EXCEPT ![t] = NoEdit]
    /\ UNCHANGED <<genpdvars, sleepvars, linkvars, bindvars, rpmvars, devconf, dpmvars, probe,
                   walk, off>>

\* The pair of domains the edits and the walks are about: A the master, B the
\* subdomain.
EditStep(t) ==
    \/ \E op \in {"add", "remove"} : EditStart(t, op, "A", "B")
    \/ EditLockMaster(t) \/ EditFind(t) \/ EditLockSub(t)
    \/ EditLinks(t) \/ EditUnlockSub(t) \/ EditUnlockMaster(t)

\* A thread is in one call at a time.
PairWalkStep(t) ==
    \/ \E g \in SleepDom : edit[t].op = "none" /\ StartPoweron(t, g)
    \/ WalkCheck(t) \/ WalkInc(t) \/ WalkLock(t) \/ WalkPower(t) \/ WalkReturn(t)

\* Power-on walks (as of pm_genpd_runtime_resume()), power-off work items and
\* edits of the link from A to B interleave.
NextLocks ==
    \/ PoweroffUnused
    \/ \E t \in Threads : PairWalkStep(t) \/ EditStep(t)
    \/ \E g \in SleepDom : WorkStep(g)

SpecLocks == Init /\ [][NextLocks]_vars

\* ------------------------------------------------------------------ attach, detach
\* genpd_dev_pm_attach() and genpd_dev_pm_detach(), one attempt or one delay of
\* their loops at a step: mdelay() and cond_resched() let the rest of the
\* system run between two attempts.
ProbeDom == {"A", "B"}

\* What the device tree holds for a device: whether it has an of_node, what
\* of_parse_phandle_with_args() returns for "power-domains", whether the
\* legacy "samsung,power-domain" is there, and the provider's domain, if any.
AttachInputs ==
    [of_node : BOOLEAN, args : {OK, ENOENT, EINVAL}, legacy : BOOLEAN,
     provider : ProbeDom \cup {NULL}]

\* genpd_dev_pm_attach() up to its loop: the error it returns, or OK
attach_lookup(G, dev, in) ==
    IF ~in.of_node THEN ENODEV
    ELSE IF G.pm_domain[dev] # NULL THEN EEXIST
    ELSE IF in.args \notin {OK, ENOENT} THEN in.args
    ELSE IF in.args = ENOENT /\ ~in.legacy THEN ENOENT
    ELSE IF in.provider = NULL THEN EPROBE_DEFER
    ELSE OK

pm_genpd_lookup_dev(G, dev) == G.pm_domain[dev]

\* return with the error code as it is
attach_result_raw(ret) == ret

\* out: return ret ? -EPROBE_DEFER : 0;
attach_result(ret) == IF ret # OK THEN EPROBE_DEFER ELSE OK

InLoop(op, pd) ==
    [op |-> op, pc |-> "try", pd |-> pd, i |-> 1, ret |-> OK, tries |-> 0,
     waited |-> 0, on |-> NULL, result |-> NULL]

Returned(p, result) == [p EXCEPT !.pc = "done", !.result = result]

Probing(dev, op, pc) == probe[dev].op = op /\ probe[dev].pc = pc

AttachStart(dev) ==
    /\ probe[dev].pc \in {"idle", "done"}
    /\ \E in \in AttachInputs :
          LET ret == attach_lookup(Cur, dev, in)
          IN  probe' = [probe EXCEPT ![dev] =
                           IF ret # OK
                           THEN Returned(InLoop("attach", NULL), ret)
                           ELSE InLoop("attach", in.provider)]
    /\ UNCHANGED <<genpdvars, sleepvars, linkvars, bindvars, rpmvars, devconf, dpmvars,
                   mutex, walk, off, edit>>

\* The PM core does not let go of a device that is part of the transition.
DetachStart(dev) ==
    /\ probe[dev].pc \in {"idle", "done"} /\ level[dev] = 0
    /\ LET pd == pm_genpd_lookup_dev(Cur, dev)
       IN  probe' = [probe EXCEPT ![dev] =
                        IF pd = NULL
                        THEN Returned(InLoop("detach", NULL), NULL)
                        ELSE InLoop("detach", pd)]
    /\ UNCHANGED <<genpdvars, sleepvars, linkvars, bindvars, rpmvars, devconf, dpmvars,
                   mutex, walk, off, edit>>

\* One pass of the loop up to the test of ret: pm_genpd_add_device() or
\* pm_genpd_remove_device(), and break unless it returned -EAGAIN.
RetryTry(dev) ==
    /\ probe[dev].pc = "try"
    /\ \E a \in AttachResults :
          \E r \in {IF probe[dev].op = "attach"
                    THEN __pm_genpd_add_device(Cur, probe[dev].pd, dev, a)
                    ELSE pm_genpd_remove_device(Cur, probe[dev].pd, dev)} :
              /\ Store(r.G)
              /\ probe' = [probe EXCEPT ![dev].ret = r.ret,
                                        ![dev].tries = @ + 1,
                                        ![dev].pc = IF r.ret # EAGAIN THEN "finish" ELSE "wait"]
    /\ UNCHANGED <<dpmvars, mutex, walk, off, edit>>

\* mdelay(i); cond_resched(); i <<= 1; i < GENPD_RETRY_MAX_MS (i is an
\* unsigned int that stays far below its width)
RetryWait(dev) ==
    /\ probe[dev].pc = "wait"
    /\ probe' = [probe EXCEPT ![dev].waited = @ + probe[dev].i,
                              ![dev].i = @ * 2,
                              ![dev].pc = IF probe[dev].i * 2 < GENPD_RETRY_MAX_MS
                                          THEN "try" ELSE "finish"]
    /\ UNCHANGED <<genpdvars, sleepvars, linkvars, bindvars, rpmvars, devconf, dpmvars,
                   mutex, walk, off, edit>>

\* after the loop of genpd_dev_pm_attach(): out with the error, or
\* genpd_poweron(pd)
AttachFinish(dev) ==
    /\ Probing(dev, "attach", "finish")
    /\ IF probe[dev].ret \notin {OK, POSITIVE}
       THEN /\ probe' = [probe EXCEPT ![dev] = Returned(@, attach_result(probe[dev].ret))]
            /\ UNCHANGED <<genpdvars, sleepvars, linkvars, bindvars, rpmvars, devconf>>
       ELSE \E pf \in PowerOnFailures :
               \E r \in {genpd_poweron(Cur, probe[dev].pd, pf)} :
                   /\ FailuresHappen(r.G, pf)
                   /\ Store(r.G)
                   /\ probe' = [probe EXCEPT ![dev] =
                                   Returned([@ EXCEPT !.on = r.ret], attach_result(r.ret))]
    /\ UNCHANGED <<dpmvars, mutex, walk, off, edit>>

\* after the loop of genpd_dev_pm_detach(): return on an error, or
\* genpd_queue_power_off_work(pd)
DetachFinish(dev) ==
    /\ Probing(dev, "detach", "finish")
    /\ IF probe[dev].ret \notin {OK, POSITIVE}
       THEN UNCHANGED <<genpdvars, sleepvars, linkvars, bindvars, rpmvars, devconf>>
       ELSE Store(genpd_queue_power_off_work(Cur, probe[dev].pd))
    /\ probe' = [probe EXCEPT ![dev] = Returned(@, NULL)]
    /\ UNCHANGED <<dpmvars, mutex, walk, off, edit>>

\* The device that driver-core attaches and detaches; the other one gets into
\* its domain by pm_genpd_add_device() and stays.
ProbeDevs == {"d2"}

\* A device is attached and detached while the system may be in a transition
\* and the power_off_work items run.
NextAttach ==
    \/ AddDevice(ProbeDom)
    \/ \E d \in ProbeDevs : AttachStart(d) \/ AttachFinish(d)
    \/ \E d \in ProbeDevs : DetachStart(d) \/ DetachFinish(d)
    \/ \E d \in ProbeDevs : RetryTry(d) \/ RetryWait(d)
    \/ \E d \in Devs : Prepare(d, {"suspend"}, {OK}) \/ Complete(d)
    \/ \E g \in ProbeDom : PowerOffWork(g)

SpecAttach == Init /\ [][NextAttach]_vars

\* ------------------------------------------------------------------ fair runs
\* No governor veto and no failing callback.
Granted == [stop_ok |-> TRUE, save |-> OK, stop |-> OK, down_ok |-> TRUE, po |-> OK]

GrantedSuspend(dev) ==
    /\ CanRuntimeSuspend(dev)
    /\ Commit(rpm_suspend(Cur, dev, Granted).G)
    /\ UNCHANGED dpmvars

GrantedResume(dev) ==
    /\ CanRuntimeResume(dev)
    /\ Commit(rpm_resume(Cur, dev, {}).G)
    /\ UNCHANGED dpmvars

GrantedPowerOffWork(genpd) ==
    /\ genpd \in power_off_work
    /\ Commit(genpd_power_off_work_fn(Cur, genpd, Granted).G)
    /\ UNCHANGED dpmvars

NextFair ==
    \/ AddDevice(Dom)
    \/ RemoveDevice(Dom)
    \/ AddSubdomain(Dom)
    \/ RemoveSubdomain(Dom)
    \/ \E d \in Devs : GrantedSuspend(d) \/ GrantedResume(d)
    \/ \E g \in Dom : GrantedPowerOffWork(g)

\* pm_wq runs every work item queued on it.
SpecFair ==
    Init /\ [][NextFair]_vars /\ \A g \in Dom : WF_vars(GrantedPowerOffWork(g))


\* ------------------------------------------------------------------ domain invariants
\* C1: at every quiescent point, every domain whose status is ACTIVE has every
\* one of its masters in status ACTIVE.
C1_ActiveDomainHasActiveMasters ==
    \A g \in Dom :
        status[g] = GPD_STATE_ACTIVE =>
            \A m \in Range(slave_links[g]) : status[m] = GPD_STATE_ACTIVE

\* C2: at every quiescent point, sd_count of every domain equals the number of
\* links whose master is the domain and whose subdomain has status ACTIVE.
C2_SdCountIsActiveSubdomains ==
    \A g \in Dom :
        sd_count[g] =
            Cardinality({i \in 1..Len(master_links[g]) :
                            status[master_links[g][i]] = GPD_STATE_ACTIVE})

\* C3: at every quiescent point, every domain whose status is POWER_OFF has
\* sd_count = 0.
C3_PowerOffHasZeroSdCount ==
    \A g \in Dom : status[g] = GPD_STATE_POWER_OFF => sd_count[g] = 0

\* C4: in every reachable state, suspended_count <= device_count for every
\* domain (as unsigned values).
C4_SuspendedAtMostDevices ==
    \A g \in Dom : ule(suspended_count[g], device_count[g])

\* C5: prepared_count of every domain equals the number of its devices whose
\* prepare returned success and whose complete has not run yet (so it is
\* positive between a prepare and its complete).
C5_PreparedCountIsPreparedDevices ==
    \A g \in Dom :
        prepared_count[g] = Cardinality({d \in Devs : pm_domain[d] = g /\ level[d] > 0})

\* ------------------------------------------------------------------ topology
\* C6 as stated: the master->subdomain graph is acyclic, and add_subdomain(A, B)
\* is rejected whenever B is A itself or already a direct or transitive master
\* of A.
C6_GraphStaysAcyclic ==
    LET subs(x) == Range(master_links[x])
        reaches(a, b) ==
            \/ b \in subs(a)
            \/ \E x \in subs(a) : b \in subs(x) \/ \E y \in subs(x) : b \in subs(y)
    IN  /\ \A g \in Dom : ~reaches(g, g)
        /\ \A a, b \in Dom :
              (b = a \/ reaches(b, a)) => pm_genpd_add_subdomain(Cur, a, b).ret # OK

\* C6: add_subdomain(A, B) is rejected with EINVAL, changing nothing, when B is
\* A itself or a link A -> B exists already, so no domain is its own direct
\* subdomain and no link is doubled; it is also rejected when A is POWER_OFF
\* and B is not. Every other link is accepted, one that closes a cycle included.
C6_OnlySelfAndDoubleLinksRejected ==
    /\ \A g \in Dom :
          /\ g \notin Range(master_links[g])
          /\ \A i, j \in 1..Len(master_links[g]) :
                i # j => master_links[g][i] # master_links[g][j]
    /\ \A a, b \in Dom :
          LET r == pm_genpd_add_subdomain(Cur, a, b)
              refused ==
                  \/ a = b
                  \/ b \in Range(master_links[a])
                  \/ status[a] = GPD_STATE_POWER_OFF /\ status[b] # GPD_STATE_POWER_OFF
          IN  IF refused
              THEN r.ret = EINVAL /\ [r.G EXCEPT !.calls = <<>>] = Cur
              ELSE /\ r.ret = OK
                   /\ r.G.master_links[a] = Append(master_links[a], b)
                   /\ r.G.slave_links[b] = Append(slave_links[b], a)

\* Two domains are each other's master, and a third link closing a longer
\* cycle would be accepted as well.
C6_CycleLinked ==
    /\ "B" \in Range(master_links["A"])
    /\ "A" \in Range(master_links["B"])
    /\ pm_genpd_add_subdomain(Cur, "B", "C").ret = OK

\* C7: while prepared_count of D is positive, add_device(D, x) for a device x
\* bound to no domain and remove_device(D, y) for a device y of D return EAGAIN
\* and leave everything as it was: device_count, dev_list, status, pm_domain,
\* domain_data, and y's QoS notifier registered again.
C7_DeviceEditsRefusedWhilePrepared ==
    \A g \in Dom :
        upos(prepared_count[g]) =>
            /\ \A x \in Devs, a \in AttachResults :
                  ~domain_data[x] =>
                      LET r == __pm_genpd_add_device(Cur, g, x, a)
                      IN  r.ret = EAGAIN /\ r.G = Cur
            /\ \A y \in Devs :
                  pm_domain[y] = g =>
                      LET r == pm_genpd_remove_device(Cur, g, y)
                      IN  r.ret = EAGAIN /\ r.G = Cur /\ r.G.nb[y]

\* A domain in a transition with a prepared device of its own, while another
\* device is bound to no domain: both edits are attempted and refused.
C7_PreparedDomainRefuses ==
    \E g \in Dom, x, y \in Devs :
        /\ upos(prepared_count[g])
        /\ ~domain_data[x]
        /\ pm_domain[y] = g /\ level[y] > 0 /\ nb_registered[y]
        /\ __pm_genpd_add_device(Cur, g, x, OK).ret = EAGAIN
        /\ pm_genpd_remove_device(Cur, g, y).ret = EAGAIN

\* C8 as stated: while prepared_count of the master or of the subdomain is
\* positive, add_subdomain and remove_subdomain return EAGAIN and leave
\* master_links, slave_links and the master's sd_count unchanged.
C8_SubdomainEditsRefusedWhilePrepared ==
    \A m, s \in Dom :
        (upos(prepared_count[m]) \/ upos(prepared_count[s])) =>
            LET a == pm_genpd_add_subdomain(Cur, m, s)
                r == pm_genpd_remove_subdomain(Cur, m, s)
            IN  /\ a.ret = EAGAIN /\ [a.G EXCEPT !.calls = <<>>] = Cur
                /\ r.ret = EAGAIN /\ [r.G EXCEPT !.calls = <<>>] = Cur

\* C8: add_subdomain and remove_subdomain do not read prepared_count: they
\* never return EAGAIN, and they return and change the links and sd_count as
\* they would with every prepared_count at zero.
C8_SubdomainEditsIgnorePreparedCount ==
    \A m, s \in Dom :
        LET Z == [Cur EXCEPT !.prepared_count = [g \in Dom |-> 0]]
            a == pm_genpd_add_subdomain(Cur, m, s)
            az == pm_genpd_add_subdomain(Z, m, s)
            r == pm_genpd_remove_subdomain(Cur, m, s)
            rz == pm_genpd_remove_subdomain(Z, m, s)
        IN  /\ a.ret # EAGAIN /\ r.ret # EAGAIN
            /\ a.ret = az.ret /\ r.ret = rz.ret
            /\ a.G = [az.G EXCEPT !.prepared_count = prepared_count]
            /\ r.G = [rz.G EXCEPT !.prepared_count = prepared_count]

\* In the middle of a transition a link is added to, and another removed from,
\* a domain with prepared devices.
C8_LinkEditedWhilePrepared ==
    \E m, s, t \in Dom :
        /\ upos(prepared_count[m])
        /\ pm_genpd_add_subdomain(Cur, m, s).ret = OK
        /\ pm_genpd_remove_subdomain(Cur, m, t).ret = OK

\* ------------------------------------------------------------------ failed power on
\* C9: if during runtime_resume(d) of a device on a POWER_OFF domain the
\* power_on callback of the domain or of an ancestor fails, runtime_resume
\* returns the error without start or restore_state of d, every domain that was
\* POWER_OFF and whose power_on did not succeed stays POWER_OFF, and sd_count
\* of every domain none of whose subdomains became ACTIVE is what it was.
C9_FailedResumeIsRewound ==
    \A dev \in Devs, pf \in PowerOnFailures :
        LET r == pm_genpd_runtime_resume(Cur, dev, pf)
            called(what, whom) ==
                \E i \in 1..Len(r.G.calls) : r.G.calls[i] = <<what, whom>>
            powered(g) == called("power_on", g) /\ g \notin pf
            woken(g) == status[g] = GPD_STATE_POWER_OFF /\ r.G.status[g] = GPD_STATE_ACTIVE
        IN  ( /\ pm_domain[dev] # NULL
              /\ ~devconf[dev].irq_safe
              /\ status[pm_domain[dev]] = GPD_STATE_POWER_OFF
              /\ \E g \in pf : called("power_on", g) ) =>
                /\ r.ret = EIO
                /\ ~called("start", dev) /\ ~called("restore_state", dev)
                /\ r.G.started = started
                /\ \A g \in Dom :
                      (status[g] = GPD_STATE_POWER_OFF /\ ~powered(g)) =>
                          r.G.status[g] = GPD_STATE_POWER_OFF
                /\ \A m \in Dom :
                      (\A s \in Range(master_links[m]) : ~woken(s)) =>
                          r.G.sd_count[m] = sd_count[m]

\* A resume that fails at the device's own domain after a master was powered
\* on: the master's sd_count had been raised and is rewound.
C9_ResumeFailsAfterMasterOn ==
    \E dev \in Devs :
        LET D == pm_domain[dev]
            r == pm_genpd_runtime_resume(Cur, dev, {D})
        IN  /\ D # NULL
            /\ status[D] = GPD_STATE_POWER_OFF
            /\ r.ret = EIO
            /\ \E m \in Range(slave_links[D]) :
                  /\ status[m] = GPD_STATE_POWER_OFF
                  /\ r.G.status[m] = GPD_STATE_ACTIVE
                  /\ r.G.sd_count[m] = sd_count[m]

\* C10 as stated: in the chain A <- B <- C, all POWER_OFF, with power_on of A
\* failing, runtime_resume of a device on C enqueues the power-off work of B.
C10_FailedMasterEnqueuesRewound ==
    \A dev \in Devs :
        ( /\ slave_links["C"] = <<"B">> /\ slave_links["B"] = <<"A">>
          /\ slave_links["A"] = <<>>
          /\ \A g \in Dom : status[g] = GPD_STATE_POWER_OFF
          /\ pm_domain[dev] = "C" ) =>
            "B" \in pm_genpd_runtime_resume(Cur, dev, {"A"}).G.work

\* C10: in the chain A <- B <- C, all POWER_OFF, runtime_resume of a device on
\* C returns the error and enqueues power-off work only for masters that were
\* powered on before the failure: none when power_on of A fails (sd_count of A
\* and B are rewound, nothing is enqueued), A's when power_on of B fails, B's
\* when power_on of C fails.
C10_FailedWalkEnqueuesPoweredMasters ==
    \A dev \in Devs :
        ( /\ slave_links["C"] = <<"B">> /\ slave_links["B"] = <<"A">>
          /\ slave_links["A"] = <<>>
          /\ \A g \in Dom : status[g] = GPD_STATE_POWER_OFF
          /\ pm_domain[dev] = "C" ) =>
            LET rA == pm_genpd_runtime_resume(Cur, dev, {"A"})
                rB == pm_genpd_runtime_resume(Cur, dev, {"B"})
                rC == pm_genpd_runtime_resume(Cur, dev, {"C"})
            IN  /\ rA.ret = EIO
                /\ rA.G.work = power_off_work
                /\ rA.G.status = status
                /\ rA.G.sd_count = sd_count
                /\ ~rA.G.warned
                /\ rB.ret = EIO
                /\ rB.G.work = power_off_work \cup {"A"}
                /\ rB.G.status = [status EXCEPT !["A"] = GPD_STATE_ACTIVE]
                /\ rB.G.sd_count = sd_count
                /\ rC.ret = EIO
                /\ rC.G.work = power_off_work \cup {"B"}
                /\ rC.G.status = [status EXCEPT !["A"] = GPD_STATE_ACTIVE,
                                                !["B"] = GPD_STATE_ACTIVE]
                /\ rC.G.sd_count = [sd_count EXCEPT !["A"] = @ + 1]

\* The chain is set up, everything is off, no work is pending, and the resume
\* of the device on C fails at A.
C10_ChainResumeFailsAtRoot ==
    \E dev \in Devs :
        /\ slave_links["C"] = <<"B">> /\ slave_links["B"] = <<"A">>
        /\ slave_links["A"] = <<>>
        /\ \A g \in Dom : status[g] = GPD_STATE_POWER_OFF
        /\ pm_domain[dev] = "C"
        /\ power_off_work = {}
        /\ pm_genpd_runtime_resume(Cur, dev, {"A"}).ret = EIO

\* ------------------------------------------------------------------ scenarios
\* The chain A <- B <- C with dev the only bound device, on C.
ChainWith(dev) ==
    /\ slave_links["C"] = <<"B">> /\ slave_links["B"] = <<"A">>
    /\ slave_links["A"] = <<>>
    /\ \A d \in Devs : pm_domain[d] = (IF d = dev THEN "C" ELSE NULL)

AllAre(st) == \A g \in Dom : status[g] = st

\* C11: in the chain A <- B <- C with the single device d on C, no veto, no
\* failure and no system sleep: runtime_resume(d) makes A, B and C ACTIVE;
\* runtime_suspend(d) powers C off at once, with A and B still ACTIVE and the
\* work of B queued; B goes off only after C and A only after B; and the
\* deferred work eventually brings all three to POWER_OFF (unless d is resumed
\* or the chain is changed first).
C11_ChainPowersDownInOrder ==
    /\ [](\A dev \in Devs :
            ChainWith(dev) =>
                /\ CanRuntimeResume(dev) =>
                      LET r == rpm_resume(Cur, dev, {})
                      IN  /\ r.ret = OK
                          /\ \A g \in Dom : r.G.status[g] = GPD_STATE_ACTIVE
                /\ (CanRuntimeSuspend(dev) /\ AllAre(GPD_STATE_ACTIVE)) =>
                      LET r == rpm_suspend(Cur, dev, Granted)
                      IN  /\ r.ret = OK
                          /\ r.G.status = [status EXCEPT !["C"] = GPD_STATE_POWER_OFF]
                          /\ "B" \in r.G.work)
    /\ [][\A dev \in Devs :
            (ChainWith(dev) /\ ChainWith(dev)') =>
                /\ (status["B"] = GPD_STATE_ACTIVE /\ status'["B"] = GPD_STATE_POWER_OFF)
                       => (status["C"] = GPD_STATE_POWER_OFF
                              /\ status'["A"] = GPD_STATE_ACTIVE)
                /\ (status["A"] = GPD_STATE_ACTIVE /\ status'["A"] = GPD_STATE_POWER_OFF)
                       => status["B"] = GPD_STATE_POWER_OFF]_vars
    /\ \A dev \in Devs :
          (ChainWith(dev) /\ runtime_status[dev] = RPM_SUSPENDED
              /\ status["C"] = GPD_STATE_POWER_OFF /\ status["B"] = GPD_STATE_ACTIVE
              /\ "B" \in power_off_work)
          ~> (AllAre(GPD_STATE_POWER_OFF) \/ ~ChainWith(dev)
                 \/ runtime_status[dev] # RPM_SUSPENDED)

\* Half way down the chain: d was suspended, C went off, the work of B has
\* powered B off and queued the work of A.
C11_ChainHalfWayDown ==
    \E dev \in Devs :
        /\ ChainWith(dev) /\ runtime_status[dev] = RPM_SUSPENDED
        /\ status["C"] = GPD_STATE_POWER_OFF /\ status["B"] = GPD_STATE_POWER_OFF
        /\ status["A"] = GPD_STATE_ACTIVE /\ power_off_work = {"A"}

\* The master A with the subdomains B and C, d1 on B and d2 on C.
SharedMaster ==
    /\ slave_links["B"] = <<"A">> /\ slave_links["C"] = <<"A">>
    /\ slave_links["A"] = <<>>
    /\ pm_domain["d1"] = "B" /\ pm_domain["d2"] = "C"

\* C12: with the master M (A) without devices, the subdomains S1 (B) with d1
\* and S2 (C) with d2, all resumed: runtime_suspend(d1) powers S1 off and
\* leaves M ACTIVE with sd_count 1, and the work of M, whenever it runs while
\* one subdomain is ACTIVE, is refused with EBUSY; runtime_suspend(d2) then
\* powers S2 off, and the work of M powers M off.
C12_SharedMasterGoesOffLast ==
    /\ [](SharedMaster =>
            /\ (AllAre(GPD_STATE_ACTIVE) /\ CanRuntimeSuspend("d1")
                    /\ CanRuntimeSuspend("d2")) =>
                  LET r1 == rpm_suspend(Cur, "d1", Granted)
                      w1 == genpd_power_off_work_fn(r1.G, "A", Granted)
                      r2 == rpm_suspend(r1.G, "d2", Granted)
                      w2 == genpd_power_off_work_fn(r2.G, "A", Granted)
                  IN  /\ r1.ret = OK
                      /\ r1.G.status = [status EXCEPT !["B"] = GPD_STATE_POWER_OFF]
                      /\ r1.G.sd_count["A"] = 1
                      /\ "A" \in r1.G.work
                      /\ w1.ret = EBUSY
                      /\ w1.G.status = r1.G.status /\ w1.G.sd_count = r1.G.sd_count
                      /\ r2.ret = OK
                      /\ r2.G.status = [r1.G.status EXCEPT !["C"] = GPD_STATE_POWER_OFF]
                      /\ r2.G.sd_count["A"] = 0
                      /\ "A" \in r2.G.work
                      /\ w2.ret = OK
                      /\ \A g \in Dom : w2.G.status[g] = GPD_STATE_POWER_OFF
            /\ (status["B"] # status["C"]) =>
                  LET w == genpd_power_off_work_fn(Cur, "A", Granted)
                  IN  /\ status["A"] = GPD_STATE_ACTIVE /\ sd_count["A"] = 1
                      /\ w.ret = EBUSY /\ w.G.status = status)
    /\ (SharedMaster /\ status["B"] = GPD_STATE_POWER_OFF
            /\ status["C"] = GPD_STATE_POWER_OFF /\ status["A"] = GPD_STATE_ACTIVE
            /\ "A" \in power_off_work)
       ~> (status["A"] = GPD_STATE_POWER_OFF \/ ~SharedMaster
              \/ status["B"] = GPD_STATE_ACTIVE \/ status["C"] = GPD_STATE_ACTIVE)

\* d1 is suspended and S1 is off, d2 is active, and the work of M is pending
\* while M's sd_count is 1.
C12_MasterWorkPendingWhileNeeded ==
    /\ SharedMaster
    /\ runtime_status["d1"] = RPM_SUSPENDED /\ runtime_status["d2"] = RPM_ACTIVE
    /\ status["B"] = GPD_STATE_POWER_OFF /\ status["C"] = GPD_STATE_ACTIVE
    /\ status["A"] = GPD_STATE_ACTIVE /\ sd_count["A"] = 1
    /\ "A" \in power_off_work


\* ------------------------------------------------------------------ IRQ-safe devices
Locked(G) == {c[2] : c \in {x \in Range(G.calls) : x[1] = "mutex_lock"}}

Powered(G) == {c \in Range(G.calls) : c[1] \in {"power_on", "power_off"}}

\* C13: for an IRQ-safe device d of the domain S, whatever the governor and the
\* callbacks answer, runtime_suspend(d) and runtime_resume(d) take no domain
\* lock, call neither ->power_off() nor ->power_on(), queue no work and leave
\* the status and the sd_count of every domain as they were.
C13_IrqSafeBypassesDomain ==
    \A dev \in Devs :
        (pm_domain[dev] # NULL /\ devconf[dev].irq_safe) =>
            /\ \A in \in SuspendInputs :
                  LET s == pm_genpd_runtime_suspend(Cur, dev, in)
                  IN  /\ Locked(s.G) = {} /\ Powered(s.G) = {}
                      /\ s.G.status = status /\ s.G.sd_count = sd_count
                      /\ s.G.work = power_off_work
            /\ \A pf \in PowerOnFailures :
                  LET r == pm_genpd_runtime_resume(Cur, dev, pf)
                  IN  /\ Locked(r.G) = {} /\ Powered(r.G) = {}
                      /\ r.G.status = status /\ r.G.sd_count = sd_count
                      /\ r.G.work = power_off_work
                      /\ r.ret = OK /\ r.G.started[dev]

\* The IRQ-safe device d of B, under the master A, was resumed while B and A
\* were off: d runs, B and A are still off and sd_count of A is still zero.
C13_IrqSafeResumedDomainOff ==
    \E dev \in Devs :
        /\ devconf[dev].irq_safe /\ pm_domain[dev] = "B"
        /\ slave_links["B"] = <<"A">>
        /\ runtime_status[dev] = RPM_ACTIVE /\ started[dev]
        /\ status["B"] = GPD_STATE_POWER_OFF /\ status["A"] = GPD_STATE_POWER_OFF
        /\ sd_count["A"] = 0

\* ------------------------------------------------------------------ wakeup devices
\* w is a device of a domain that was not latched off at prepare, is on the
\* wakeup path and has to stay active, and takes part in a system suspend.
WakeupCase(w) ==
    /\ pm_domain[w] # NULL /\ wakeup_active(w)
    /\ pm_cycle = "suspend" /\ level[w] >= 1
    /\ ~suspend_power_off[pm_domain[w]]

\* C14: for a device w on the wakeup path with active_wakeup, in a domain D
\* that was ACTIVE when it was prepared: D is ACTIVE in every state of the
\* transition, whatever the other devices of D have run; suspend_noirq(w) and
\* resume_noirq(w) return 0 and change nothing (no ->stop(), suspended_count
\* as it was); complete(w) calls pm_generic_complete().
C14_WakeupDeviceKeepsDomainOn ==
    \A w \in Devs :
        WakeupCase(w) =>
            /\ status[pm_domain[w]] = GPD_STATE_ACTIVE
            /\ suspended_count[pm_domain[w]] < device_count[pm_domain[w]]
            /\ pm_genpd_suspend_noirq(Cur, w) = Res(Cur, OK)
            /\ pm_genpd_resume_noirq(Cur, w) = Res(Cur, OK)
            /\ <<"pm_generic_complete", w>> \in Range(pm_genpd_complete(Cur, w).calls)

\* w and the plain device x of the same domain have both run suspend_noirq:
\* x was stopped and counted, w runs on and the domain is ACTIVE.
C14_WakeupDeviceThroughNoirq ==
    \E w, x \in Devs :
        /\ WakeupCase(w) /\ level[w] = 4 /\ started[w]
        /\ pm_domain[x] = pm_domain[w] /\ ~wakeup_active(x)
        /\ level[x] = 4 /\ ~started[x]
        /\ suspended_count[pm_domain[w]] = 1 /\ device_count[pm_domain[w]] = 2
        /\ status[pm_domain[w]] = GPD_STATE_ACTIVE

\* ------------------------------------------------------------------ the latch
\* The domain fields, which a short-circuited callback leaves alone.
DomainState == <<genpdvars, sleepvars, linkvars>>

\* C15: a first prepare (prepared_count 0) of a device that needs no resume,
\* on a domain D that is POWER_OFF, latches suspend_power_off; while D is
\* latched, suspend, suspend_late, suspend_noirq, resume_noirq, resume_early
\* and resume of a device of D return 0, change nothing and call nothing; the
\* latch is set only by such a prepare and is cleared only by the step that
\* brings prepared_count to 0, which complete does; and with prepared_count 0
\* a runtime_resume whose ->power_on() succeed makes D ACTIVE.
C15_LatchedOffCycleShortCircuits ==
    /\ [](\A dev \in Devs :
            LET D == pm_domain[dev]
            IN  D # NULL =>
                  /\ (status[D] = GPD_STATE_POWER_OFF /\ prepared_count[D] = 0
                         /\ ~resume_needed(dev)) =>
                        \A in \in PrepareInputs({OK, EIO}) :
                            ~in.wakeup_pending =>
                                LET p == pm_genpd_prepare(Cur, dev, in)
                                IN  /\ p.ret = OK
                                    /\ p.G = [Cur EXCEPT !.suspend_power_off[D] = TRUE,
                                                         !.prepared_count[D] = 1,
                                                         !.suspended_count[D] = 0]
                  /\ suspend_power_off[D] =>
                        /\ pm_genpd_suspend(Cur, dev) = Res(Cur, OK)
                        /\ pm_genpd_suspend_late(Cur, dev) = Res(Cur, OK)
                        /\ pm_genpd_suspend_noirq(Cur, dev) = Res(Cur, OK)
                        /\ pm_genpd_resume_noirq(Cur, dev) = Res(Cur, OK)
                        /\ pm_genpd_resume_early(Cur, dev) = Res(Cur, OK)
                        /\ pm_genpd_resume(Cur, dev) = Res(Cur, OK)
                  /\ prepared_count[D] = 1 =>
                        LET c == pm_genpd_complete(Cur, dev)
                        IN  /\ ~c.suspend_power_off[D] /\ c.prepared_count[D] = 0
                            /\ suspend_power_off[D] => c.calls = <<>>
                  /\ prepared_count[D] = 0 =>
                        LET r == pm_genpd_runtime_resume(Cur, dev, {})
                        IN  r.ret = OK /\ r.G.status[D] = GPD_STATE_ACTIVE)
    /\ [][\A g \in Dom :
            /\ (~suspend_power_off[g] /\ suspend_power_off'[g]) =>
                  /\ prepared_count[g] = 0 /\ prepared_count'[g] = 1
                  /\ status'[g] = GPD_STATE_POWER_OFF
            /\ (suspend_power_off[g] /\ ~suspend_power_off'[g]) =>
                  (prepared_count[g] = 1 /\ prepared_count'[g] = 0)
            /\ (suspend_power_off[g] /\ suspend_power_off'[g]
                   /\ \E d \in Devs : pm_domain[d] = g /\ level'[d] # level[d]
                                         /\ level[d] >= 1 /\ level'[d] >= 1) =>
                  DomainState' = DomainState]_vars

\* A device of the latched domain D has run every suspend-side callback of a
\* system suspend: D is still POWER_OFF and nothing was counted or stopped.
C15_LatchedThroughNoirq ==
    \E dev \in Devs :
        /\ pm_domain[dev] # NULL /\ pm_cycle = "suspend" /\ level[dev] = 4
        /\ suspend_power_off[pm_domain[dev]]
        /\ status[pm_domain[dev]] = GPD_STATE_POWER_OFF
        /\ suspended_count[pm_domain[dev]] = 0
        /\ prepared_count[pm_domain[dev]] = device_count[pm_domain[dev]]

\* ------------------------------------------------------------------ round trip
\* The orders in which the devices devs may be taken.
Orders(devs) ==
    {o \in [1..Cardinality(devs) -> devs] : \A i, j \in DOMAIN o : o[i] = o[j] => i = j}

RECURSIVE suspend_each(_, _, _)
\* rpm_suspend() of the devices in order, up to the first that fails
suspend_each(G, order, in) ==
    IF order = <<>>
    THEN [G |-> G, ok |-> TRUE]
    ELSE LET r == rpm_suspend(G, Head(order), in)
         IN  IF r.ret # OK
             THEN [G |-> r.G, ok |-> FALSE]
             ELSE suspend_each(r.G, Tail(order), in)

RECURSIVE resume_each(_, _, _)
\* rpm_resume() of the devices in order, up to the first that fails
resume_each(G, order, pf) ==
    IF order = <<>>
    THEN [G |-> G, ok |-> TRUE]
    ELSE LET r == rpm_resume(G, Head(order), pf)
         IN  IF r.ret # OK
             THEN [G |-> r.G, ok |-> FALSE]
             ELSE resume_each(r.G, Tail(order), pf)

\* No statistic of b is below the one of a.
StatsLeq(a, b) ==
    /\ \A g \in Dom : a.power_on[g] <= b.power_on[g] /\ a.power_off[g] <= b.power_off[g]
    /\ \A d \in Devs : a.suspend[d] <= b.suspend[d] /\ a.resume[d] <= b.resume[d]

\* The devices of D, none IRQ-safe, are all active with runtime PM enabled.
RoundTripCase(D) ==
    /\ \E d \in Devs : pm_domain[d] = D
    /\ \A d \in Devs : pm_domain[d] = D => (~devconf[d].irq_safe /\ CanRuntimeSuspend(d))

\* C16: from a state in which the devices of D are active, runtime_suspend of
\* every device of D in any order and then runtime_resume of each in any order,
\* every call returning 0, end with every device of D started and active and
\* with D ACTIVE; and from any statistics and with any measured times, no
\* latency statistic is lower after the suspends than before, nor lower after
\* the resumes than after the suspends.
C16_RoundTripRestoresDomain ==
    \A D \in Dom :
        RoundTripCase(D) =>
            \A so, ro \in Orders({d \in Devs : pm_domain[d] = D}) :
                /\ \A in \in SuspendInputs, pf \in PowerOnFailures :
                      LET s == suspend_each(Cur, so, in)
                          r == resume_each(s.G, ro, pf)
                      IN  (s.ok /\ r.ok) =>
                              /\ r.G.status[D] = GPD_STATE_ACTIVE
                              /\ \A i \in DOMAIN so :
                                    r.G.started[so[i]] /\ r.G.rts[so[i]] = RPM_ACTIVE
                /\ \A l, n1, n2 \in 0..MaxNs, in \in PoweroffInputs :
                      LET s == suspend_each([Cur EXCEPT !.lat = Stats(l), !.ns = n1], so,
                                            [Granted EXCEPT !.down_ok = in.down_ok,
                                                            !.po = in.po])
                          r == resume_each([s.G EXCEPT !.ns = n2], ro, {})
                      IN  /\ s.ok /\ r.ok
                          /\ StatsLeq(Stats(l), s.G.lat) /\ StatsLeq(s.G.lat, r.G.lat)

\* Both devices of the domain B, under the master A, are suspended and B and A
\* are off: the state between the suspends and the resumes.
C16_AllSuspendedDomainOff ==
    /\ \A d \in Devs : pm_domain[d] = "B" /\ runtime_status[d] = RPM_SUSPENDED
                          /\ ~started[d] /\ disable_depth[d] = 0
    /\ slave_links["B"] = <<"A">>
    /\ status["B"] = GPD_STATE_POWER_OFF /\ status["A"] = GPD_STATE_POWER_OFF

\* ------------------------------------------------------------------ idempotence
\* C17: when genpd_poweroff(D) has set D to POWER_OFF, a second
\* genpd_poweroff(D) right after it, sync or async and whatever the governor
\* and ->power_off() would answer, returns 0, calls nothing and leaves every
\* field (status, sd_count of the masters, queued work) as the first call left
\* it; __genpd_poweron(D) on an ACTIVE D returns 0, calls nothing and changes
\* nothing, whichever ->power_on() would fail.
C17_PowerOffAndPowerOnIdempotent ==
    \A D \in Dom :
        /\ \A is_async \in BOOLEAN, in \in PoweroffInputs :
              LET first == genpd_poweroff(Cur, D, is_async, in)
                  after == [first.G EXCEPT !.calls = <<>>]
              IN  (status[D] = GPD_STATE_ACTIVE
                      /\ first.G.status[D] = GPD_STATE_POWER_OFF) =>
                      \A again \in BOOLEAN, in2 \in PoweroffInputs :
                          genpd_poweroff(after, D, again, in2) = Res(after, OK)
        /\ status[D] = GPD_STATE_ACTIVE =>
              \A pf \in PowerOnFailures : __genpd_poweron(Cur, D, pf) = Res(Cur, OK)

\* The master A went off after its subdomain B and is queued nowhere: a
\* further run of its work takes the lock and finds nothing to do.
C17_SecondPowerOffFindsDomainOff ==
    /\ slave_links["B"] = <<"A">>
    /\ status["A"] = GPD_STATE_POWER_OFF /\ status["B"] = GPD_STATE_POWER_OFF
    /\ sd_count["A"] = 0 /\ power_off_work = {}
    /\ \E d \in Devs : pm_domain[d] = "A" /\ runtime_status[d] = RPM_SUSPENDED
    /\ \E in \in PoweroffInputs :
          in.down_ok /\ in.po = OK
              /\ genpd_power_off_work_fn(Cur, "A", in).ret = OK
              /\ genpd_power_off_work_fn(Cur, "A", in).G.calls
                     = <<<<"mutex_lock", "A">>, <<"mutex_unlock", "A">>>>

\* ------------------------------------------------------------------ lock order
\* The domains whose mutex the thread holds after the first n calls.
Held(calls, n) ==
    {g \in Dom :
        \E i \in 1..n :
            /\ calls[i] = <<"mutex_lock", g>>
            /\ \A j \in (i + 1)..n : calls[j] # <<"mutex_unlock", g>>}

\* In the operation that led to G: a mutex taken while the mutex of a domain
\* linked to it is held belongs to a subdomain of that domain.
MasterFirst(G) ==
    \A n \in 1..Len(G.calls) :
        G.calls[n][1] = "mutex_lock" =>
            \A h \in Held(G.calls, n - 1) :
                LET g == G.calls[n][2]
                IN  (g \in Range(G.master_links[h]) \/ h \in Range(G.master_links[g]))
                        => g \in Range(G.master_links[h])

\* C18 as stated: on every path that holds the mutexes of a master and of its
\* subdomain together (add_subdomain, remove_subdomain, the power-on walk of a
\* runtime resume), the mutex of the master is taken first.
C18_MasterLockedFirst ==
    /\ \A m, s \in Dom :
          /\ MasterFirst(pm_genpd_add_subdomain(Cur, m, s).G)
          /\ MasterFirst([pm_genpd_remove_subdomain(Cur, m, s).G
                              EXCEPT !.master_links = master_links])
    /\ \A dev \in Devs, pf \in PowerOnFailures :
          pm_domain[dev] # NULL => MasterFirst(pm_genpd_runtime_resume(Cur, dev, pf).G)

\* ------------------------------------------------------------------ power on against power off
\* C19: with no system sleep and no failing callback, in every interleaving of
\* genpd_poweron() walks with the power_off_work of the domains: a work item
\* that reads sd_count > 0 on an ACTIVE domain goes to its unlock and leaves
\* the domain ACTIVE; a walk that returns from genpd_poweron(M) leaves M
\* ACTIVE, also when M went off after the walk incremented its sd_count; and
\* at the step that sets the status of S to ACTIVE every master of S is ACTIVE.
C19_MasterActiveWhenSubdomainPowersOn ==
    /\ [](\A t \in Threads :
            /\ At(t, "return") => status[Top(t).genpd] = GPD_STATE_ACTIVE
            /\ At(t, "power") =>
                  \A m \in Range(slave_links[Top(t).genpd]) :
                      status[m] = GPD_STATE_ACTIVE /\ sd_count[m] > 0)
    /\ [][\A g \in Dom :
            /\ (status[g] = GPD_STATE_POWER_OFF /\ status'[g] = GPD_STATE_ACTIVE) =>
                  \A m \in Range(slave_links[g]) :
                      status[m] = GPD_STATE_ACTIVE /\ status'[m] = GPD_STATE_ACTIVE
            /\ (off[g].pc \in {"check", "recheck"} /\ off'[g] # off[g]
                   /\ status[g] = GPD_STATE_ACTIVE /\ sd_count[g] > 0) =>
                  (off'[g].pc = "unlock" /\ status'[g] = GPD_STATE_ACTIVE)
            /\ (off[g].pc = "unlock" /\ off'[g] # off[g]) => status'[g] = status[g]]_vars

\* The walk of t from a subdomain has incremented sd_count of the master A and
\* waits for the lock of A, whose work item passed both reads of sd_count
\* before and has powered A off since.
C19_MasterWentOffAfterIncrement ==
    \E t \in Threads :
        /\ At(t, "lock") /\ slave_links[Top(t).genpd][Top(t).i] = "A"
        /\ status["A"] = GPD_STATE_POWER_OFF /\ sd_count["A"] > 0
        /\ mutex["A"] = "pm_wq" /\ off["A"].pc \in {"drop", "unlock"}
        /\ status[Top(t).genpd] = GPD_STATE_POWER_OFF

\* ------------------------------------------------------------------ C20
\* The attempts made and the time waited when the loop is at delay i.
InLoopAt(p, attempts) ==
    /\ p.i = 2^(attempts - 1) /\ p.tries = attempts /\ attempts \in 1..8
    /\ p.waited = p.i - 1

BackOffLoop ==
    \A d \in ProbeDevs :
        LET p == probe[d]
        IN  /\ (p.pc = "try" /\ p.tries > 0) => p.ret = EAGAIN /\ InLoopAt([p EXCEPT !.tries = @ + 1], p.tries + 1)
            /\ p.pc = "wait" => p.ret = EAGAIN /\ InLoopAt(p, p.tries)
            /\ (p.pc \in {"finish", "done"} /\ p.tries > 0) =>
                   /\ p.tries <= 8 /\ p.waited <= 255
                   /\ p.waited = IF p.ret = EAGAIN THEN 2^p.tries - 1 ELSE 2^(p.tries - 1) - 1
                   /\ p.ret = EAGAIN => p.tries = 8 /\ p.waited = 255

AttachDetachStep ==
    \A d \in ProbeDevs :
        LET p == probe[d]
            q == probe'[d]
        IN  /\ (p.pc = "wait" /\ q # p) => q.waited - p.waited = 2^(p.tries - 1)
            /\ (p.pc = "try" /\ q # p) => q.tries = p.tries + 1 /\ q.waited = p.waited
            /\ (Probing(d, "attach", "finish") /\ q.pc = "done") =>
                   /\ (p.ret # OK \/ q.on # OK) => q.result = EPROBE_DEFER
                   /\ q.result \in {EPROBE_DEFER, OK}
                   /\ q.result = OK =>
                          /\ p.ret = OK /\ q.on = OK
                          /\ pm_domain'[d] = p.pd /\ d \in Range(dev_list'[p.pd])

\* C20: genpd_dev_pm_attach() and genpd_dev_pm_detach() call
\* pm_genpd_add_device() / pm_genpd_remove_device() again only after -EAGAIN, at
\* most 8 times, with delays of 1, 2, 4, ... ms that add up to at most 255 ms;
\* genpd_dev_pm_attach() returns -EPROBE_DEFER when the device is still refused
\* after the last attempt, when pm_genpd_add_device() fails with another error
\* and when genpd_poweron() fails, and 0 only when the device was added and
\* genpd_poweron() returned 0.
C20_RetryWithBackOffThenDefer == []BackOffLoop /\ [][AttachDetachStep]_vars

\* genpd_dev_pm_attach() has returned -EPROBE_DEFER after 8 refused attempts
\* and 255 ms of delays.
C20_StillRefusedAfterLastAttempt ==
    \E d \in ProbeDevs :
        /\ Probing(d, "attach", "done") /\ probe[d].result = EPROBE_DEFER
        /\ probe[d].ret = EAGAIN /\ probe[d].tries = 8 /\ probe[d].waited = 255

\* ------------------------------------------------------------------ C21
HasIrqSafe(genpd) == \E d \in Range(dev_list[genpd]) : devconf[d].irq_safe

\* C21: an ACTIVE domain with an IRQ-safe device on its dev_list is ACTIVE
\* after genpd_power_off_work_fn() and after the runtime suspend of any of its
\* devices, whatever the governor and the callbacks answer.
C21_IrqSafeDeviceKeepsDomainOn ==
    \A genpd \in Dom :
        (status[genpd] = GPD_STATE_ACTIVE /\ HasIrqSafe(genpd)) =>
            /\ \A in \in PoweroffInputs :
                  genpd_power_off_work_fn(Cur, genpd, in).G.status[genpd] = GPD_STATE_ACTIVE
            /\ \A dev \in Range(dev_list[genpd]) :
                  CanRuntimeSuspend(dev) =>
                      \A in \in SuspendInputs :
                          rpm_suspend(Cur, dev, in).G.status[genpd] = GPD_STATE_ACTIVE

\* Every device of the ACTIVE domain B is runtime-suspended and one of them is
\* IRQ-safe; no subdomain, no system sleep and no pending work keep B on, and
\* C went off in the meantime.
C21_AllSuspendedDomainStillOn ==
    \E d, e \in Devs :
        /\ dev_list["B"] = <<d, e>> /\ devconf[d].irq_safe /\ ~devconf[e].irq_safe
        /\ runtime_status[d] = RPM_SUSPENDED /\ runtime_status[e] = RPM_SUSPENDED
        /\ disable_depth[d] = 0 /\ disable_depth[e] = 0
        /\ status["B"] = GPD_STATE_ACTIVE /\ sd_count["B"] = 0
        /\ slave_links["B"] = <<"A">> /\ sd_count["A"] = 1
        /\ pm_cycle = "none" /\ prepared_count["B"] = 0 /\ "B" \notin power_off_work
        /\ status["C"] = GPD_STATE_POWER_OFF

\* ------------------------------------------------------------------ C22
\* The devices of genpd that genpd_poweroff() takes for not suspended.
NotSuspended(genpd) ==
    {d \in Range(dev_list[genpd]) :
        runtime_status[d] # RPM_SUSPENDED \/ disable_depth[d] # 0 \/ devconf[d].irq_safe}

\* C22: genpd_poweroff(D, is_async) takes D from ACTIVE to POWER_OFF only
\* from a state with prepared_count = 0 and sd_count = 0, with no PM QoS flag
\* on a device of D, with no device of D that is not runtime-suspended or is
\* IRQ-safe when is_async and at most one otherwise, and only when the
\* governor agrees and ->power_off() returns 0.
C22_PowerOffOnlyWhenAllowed ==
    \A genpd \in SleepDom, is_async \in BOOLEAN, in \in PoweroffInputs :
        LET r == genpd_poweroff(Cur, genpd, is_async, in)
        IN  (status[genpd] = GPD_STATE_ACTIVE
                /\ r.G.status[genpd] = GPD_STATE_POWER_OFF) =>
                /\ prepared_count[genpd] = 0 /\ sd_count[genpd] = 0
                /\ \A d \in Range(dev_list[genpd]) : ~devconf[d].qos_flags
                /\ Cardinality(NotSuspended(genpd)) <= (IF is_async THEN 0 ELSE 1)
                /\ in.down_ok /\ in.po = OK /\ r.ret = OK

\* A is ACTIVE with two devices, one of them runtime-suspended and the other
\* not, and the genpd_poweroff(A, false) of the runtime suspend of that
\* device turns A off.
C22_LastActiveDeviceLetsDomainOff ==
    /\ status["A"] = GPD_STATE_ACTIVE /\ Len(dev_list["A"]) = 2
    /\ Cardinality(NotSuspended("A")) = 1
    /\ \E in \in PoweroffInputs :
          genpd_poweroff(Cur, "A", FALSE, in).G.status["A"] = GPD_STATE_POWER_OFF

\* ------------------------------------------------------------------ C23
\* C23: when genpd_poweroff(D, is_async) returns an error (-EBUSY from
\* sd_count, a PM QoS flag or the devices, -EAGAIN from the governor, or what
\* ->power_off() returned, -EBUSY included), D was ACTIVE and is ACTIVE, and
\* the status, the sd_count and the pending power_off_work of every domain
\* are what they were.
C23_RefusedPowerOffChangesNothing ==
    \A genpd \in SleepDom, is_async \in BOOLEAN, in \in PoweroffInputs :
        LET r == genpd_poweroff(Cur, genpd, is_async, in)
        IN  r.ret # OK =>
                /\ status[genpd] = GPD_STATE_ACTIVE
                /\ r.G.status = status
                /\ r.G.sd_count = sd_count
                /\ r.G.work = power_off_work

\* The power_off_work of the ACTIVE subdomain B of A gets past every test
\* of genpd_poweroff(): the governor and ->power_off() decide, and each of
\* 0, -EAGAIN, -EBUSY and -EIO is returned for one of their answers.
C23_CallbacksDecideWithMaster ==
    /\ slave_links["B"] = <<"A">> /\ status["B"] = GPD_STATE_ACTIVE
    /\ sd_count["A"] = 1 /\ dev_list["B"] # <<>>
    /\ {genpd_poweroff(Cur, "B", TRUE, in).ret : in \in PoweroffInputs}
           = {OK, EAGAIN, EBUSY, EIO}

\* ------------------------------------------------------------------ C24
\* D is latched off for the system sleep in progress.
LatchedOff(genpd) == prepared_count[genpd] > 0 /\ suspend_power_off[genpd]

\* C24: while prepared_count > 0 and suspend_power_off is set on D,
\* genpd_poweron(D) returns 0, calls no ->power_on(), and leaves the status of
\* D, which is POWER_OFF, and the sd_count of every domain as they were,
\* whichever ->power_on() would fail.
C24_LatchedDomainIsNotPoweredOn ==
    \A genpd \in SleepDom :
        LatchedOff(genpd) =>
            /\ status[genpd] = GPD_STATE_POWER_OFF
            /\ \A pf \in PowerOnFailures :
                  LET r == genpd_poweron(Cur, genpd, pf)
                  IN  /\ r.ret = OK /\ Powered(r.G) = {}
                      /\ r.G.status = status /\ r.G.sd_count = sd_count

\* ------------------------------------------------------------------ C25
\* The callbacks of the device and of the domains in the order of their calls.
Callbacks(G) ==
    SelectSeq(G.calls, LAMBDA c : c[1] \notin {"mutex_lock", "mutex_unlock"})

\* C25: pm_genpd_runtime_suspend(dev) calls ->save_state() and then ->stop();
\* when ->save_state() fails it calls nothing else and returns the error; when
\* ->stop() fails it calls ->restore_state() and returns the error; in both
\* cases, and when it returns -EBUSY for the governor's stop_ok(), it takes no
\* domain lock, calls no ->power_off(), queues no work and leaves the status
\* and the sd_count of every domain as they were.
C25_FailedRuntimeSuspendRollsBack ==
    \A dev \in Devs : \A in \in SuspendInputs :
        Bound(dev) =>
            LET r == pm_genpd_runtime_suspend(Cur, dev, in)
                vetoed == disable_depth[dev] = 0 /\ ~in.stop_ok
                calls == Callbacks(r.G)
            IN  /\ vetoed => r.ret = EBUSY /\ calls = <<>>
                /\ (~vetoed /\ in.save # OK) =>
                       r.ret = in.save /\ calls = <<<<"save_state", dev>>>>
                /\ (~vetoed /\ in.save = OK /\ in.stop # OK) =>
                       /\ r.ret = in.stop
                       /\ calls = <<<<"save_state", dev>>, <<"stop", dev>>,
                                    <<"restore_state", dev>>>>
                /\ (~vetoed /\ in.save = OK /\ in.stop = OK) =>
                       /\ r.ret = OK
                       /\ SubSeq(calls, 1, 2) = <<<<"save_state", dev>>, <<"stop", dev>>>>
                /\ r.ret # OK =>
                       /\ Locked(r.G) = {}
                       /\ r.G.status = status /\ r.G.sd_count = sd_count
                       /\ r.G.work = power_off_work

\* The last running device of an ACTIVE domain: its runtime suspend turns the
\* domain off when the callbacks succeed, and fails with the error of ->stop()
\* when that fails.
C25_FailureWhereSuccessPowersOff ==
    \E dev \in Devs :
        /\ Bound(dev) /\ runtime_status[dev] = RPM_ACTIVE /\ started[dev]
        /\ status[pm_domain[dev]] = GPD_STATE_ACTIVE
        /\ pm_genpd_runtime_suspend(Cur, dev, Granted).G.status[pm_domain[dev]]
               = GPD_STATE_POWER_OFF
        /\ pm_genpd_runtime_suspend(Cur, dev, [Granted EXCEPT !.stop = EIO]).ret = EIO

\* ------------------------------------------------------------------ C26
\* The state in which the callback of dev runs: rpm_suspend() has set
\* RPM_SUSPENDING.
Suspending(dev) == [Cur EXCEPT !.rts[dev] = RPM_SUSPENDING]

\* What genpd_poweroff(D, false) returns to the runtime suspend of dev.
PoweroffResults(dev) ==
    {genpd_poweroff(Suspending(dev), pm_domain[dev], FALSE, in).ret : in \in PoweroffInputs}

\* C26: when the governor lets the device stop and ->save_state() and
\* ->stop() return 0, pm_genpd_runtime_suspend(dev) returns 0 and the device
\* is stopped, whatever genpd_poweroff(D, false) returns; D is POWER_OFF
\* afterwards when that returned 0 outside a system sleep, and as it was when
\* it returned an error.
C26_RuntimeSuspendIgnoresPowerOffResult ==
    \A dev \in Devs : \A in \in SuspendInputs :
        (CanRuntimeSuspend(dev) /\ in.stop_ok /\ in.save = OK /\ in.stop = OK) =>
            LET genpd == pm_domain[dev]
                r == pm_genpd_runtime_suspend(Suspending(dev), dev, in)
                p == genpd_poweroff(Suspending(dev), genpd, FALSE, in)
            IN  /\ r.ret = OK /\ ~r.G.started[dev]
                /\ rpm_suspend(Cur, dev, in).G.rts[dev] = RPM_SUSPENDED
                /\ ~devconf[dev].irq_safe =>
                       /\ r.G.status = p.G.status /\ r.G.sd_count = p.G.sd_count
                       /\ p.ret # OK =>
                              /\ status[genpd] = GPD_STATE_ACTIVE
                              /\ r.G.status = status /\ r.G.sd_count = sd_count
                       /\ (p.ret = OK /\ prepared_count[genpd] = 0) =>
                              r.G.status[genpd] = GPD_STATE_POWER_OFF

\* A running device whose runtime suspend gets every answer from
\* genpd_poweroff(): 0, -EAGAIN of the governor, -EBUSY and -EIO of
\* ->power_off(); its domain has a master.
C26_EveryPowerOffResult ==
    \E dev \in Devs :
        /\ CanRuntimeSuspend(dev) /\ started[dev] /\ ~devconf[dev].irq_safe
        /\ slave_links[pm_domain[dev]] # <<>>
        /\ PoweroffResults(dev) = {OK, EAGAIN, EBUSY, EIO}

\* ------------------------------------------------------------------ C27
\* C27: a pm_genpd_prepare(dev) that returns an error (-EBUSY for a pending
\* wakeup, or the error of pm_generic_prepare()) leaves prepared_count of the
\* domain as it was, and with suspend_power_off false when that count is 0.
C27_FailedPrepareRestoresCount ==
    \A dev \in Devs : \A in \in PrepareInputs(Errno) :
        CanDown(dev, 0) =>
            LET genpd == pm_domain[dev]
                r == pm_genpd_prepare(Cur, dev, in)
            IN  r.ret \notin {OK, POSITIVE} =>
                    /\ r.G.prepared_count[genpd] = prepared_count[genpd]
                    /\ prepared_count[genpd] = 0 => ~r.G.suspend_power_off[genpd]
                    /\ r.G.disable_depth[dev] = disable_depth[dev]

\* The prepare of d has failed after the prepare of e, a device of the same
\* domain, had succeeded: the transition has turned around with the count at 1.
C27_SecondPrepareFailed ==
    \E d, e \in Devs :
        /\ pm_domain[d] = "A" /\ pm_domain[e] = "A"
        /\ level[d] = 0 /\ level[e] = 1 /\ resuming
        /\ prepared_count["A"] = 1 /\ ~suspend_power_off["A"]
        /\ disable_depth[d] = 0 /\ disable_depth[e] = 1

\* ------------------------------------------------------------------ C28
\* dev is at its noirq callback, in a domain that is not latched off, and is
\* no active-wakeup device on the wakeup path.
NoirqCase(dev) ==
    /\ Bound(dev) /\ level[dev] = 3
    /\ ~suspend_power_off[pm_domain[dev]] /\ ~wakeup_active(dev)

\* r is the result of ->stop(dev), suspended_count + 1 and sync_power_off(D).
StopsCountsAndSyncs(r, dev) ==
    LET genpd == pm_domain[dev]
        counted == [Cur EXCEPT !.suspended_count[genpd] = @ + 1]
        synced == pm_genpd_sync_poweroff(counted, genpd, TRUE)
    IN  /\ r.ret = OK
        /\ Callbacks(r.G) = <<<<"stop", dev>>>> \o Callbacks(synced)
        /\ ~r.G.started[dev]
        /\ r.G.suspended_count = synced.suspended_count
        /\ r.G.status = synced.status /\ r.G.sd_count = synced.sd_count

\* C28 as the specification has it: suspend_noirq, poweroff_noirq and
\* freeze_noirq each call ->stop(dev), increment suspended_count and call
\* sync_power_off(D).
C28_NoirqCallbacksAlike ==
    \A dev \in Devs :
        NoirqCase(dev) =>
            /\ StopsCountsAndSyncs(pm_genpd_suspend_noirq(Cur, dev), dev)
            /\ StopsCountsAndSyncs(pm_genpd_poweroff_noirq(Cur, dev), dev)
            /\ StopsCountsAndSyncs(pm_genpd_freeze_noirq(Cur, dev), dev)

\* C28, amended: suspend_noirq and poweroff_noirq, which are one function,
\* call ->stop(dev), increment suspended_count and call sync_power_off(D);
\* freeze_noirq calls ->stop(dev) and nothing else: suspended_count, the
\* status and the sd_count of every domain are as they were.
C28_FreezeNoirqOnlyStops ==
    \A dev \in Devs :
        NoirqCase(dev) =>
            /\ StopsCountsAndSyncs(pm_genpd_suspend_noirq(Cur, dev), dev)
            /\ StopsCountsAndSyncs(pm_genpd_poweroff_noirq(Cur, dev), dev)
            /\ LET r == pm_genpd_freeze_noirq(Cur, dev)
               IN  /\ r.ret = OK /\ Callbacks(r.G) = <<<<"stop", dev>>>>
                   /\ ~r.G.started[dev]
                   /\ r.G.suspended_count = suspended_count
                   /\ r.G.status = status /\ r.G.sd_count = sd_count

\* freeze_noirq has run for the only device of the ACTIVE domain A: the
\* device is stopped, suspended_count is 0 and A is ACTIVE.
C28_FrozenDomainStillOn ==
    \E dev \in Devs :
        /\ dev_list["A"] = <<dev>> /\ pm_cycle = "thaw" /\ level[dev] = 4
        /\ ~started[dev] /\ ~suspend_power_off["A"]
        /\ suspended_count["A"] = 0 /\ status["A"] = GPD_STATE_ACTIVE
        /\ sd_count["A"] = 0

\* ------------------------------------------------------------------ C29
RECURSIVE suspend_noirq_each(_, _)
\* pm_genpd_suspend_noirq() of the devices in order
suspend_noirq_each(G, order) ==
    IF order = <<>>
    THEN G
    ELSE suspend_noirq_each(pm_genpd_suspend_noirq(G, Head(order)).G, Tail(order))

RECURSIVE resume_noirq_each(_, _)
\* pm_genpd_resume_noirq() of the devices in order
resume_noirq_each(G, order) ==
    IF order = <<>>
    THEN G
    ELSE resume_noirq_each(pm_genpd_resume_noirq(G, Head(order)).G, Tail(order))

BoundDevs == {d \in Devs : Bound(d)}

\* A system suspend has taken every device of every domain up to its noirq
\* callback, and none is an active-wakeup device on the wakeup path.
NoirqRoundTripCase ==
    /\ pm_cycle = "suspend" /\ BoundDevs # {}
    /\ \A d \in BoundDevs : level[d] = 3 /\ ~wakeup_active(d)

\* C29: from a state in which every device is at its noirq callback,
\* suspend_noirq of every device and then resume_noirq of every device, in any
\* orders, bring status, suspended_count and sd_count of every domain that is
\* not latched off back to what they were; and a resume_noirq of a device of
\* such a domain D is sync_power_on(D), suspended_count - 1 and ->start(dev),
\* in this order.
C29_NoirqRoundTripRestoresDomains ==
    /\ NoirqRoundTripCase =>
          \A so, ro \in Orders(BoundDevs) :
              LET s == suspend_noirq_each(Cur, so)
                  r == resume_noirq_each(s, ro)
              IN  \A D \in SleepDom :
                      ~suspend_power_off[D] =>
                          /\ r.status[D] = status[D]
                          /\ r.suspended_count[D] = suspended_count[D]
                          /\ r.sd_count[D] = sd_count[D]
    /\ \A dev \in BoundDevs :
          (level[dev] = 4 /\ ~suspend_power_off[pm_domain[dev]] /\ ~wakeup_active(dev)) =>
              LET genpd == pm_domain[dev]
                  synced == pm_genpd_sync_poweron(Cur, genpd)
                  r == pm_genpd_resume_noirq(Cur, dev)
              IN  /\ r.ret = OK /\ r.G.started[dev]
                  /\ Callbacks(r.G) = Callbacks(synced) \o <<<<"start", dev>>>>
                  /\ r.G.suspended_count[genpd] = suspended_count[genpd] - 1
                  /\ r.G.status = synced.status /\ r.G.sd_count = synced.sd_count

\* ------------------------------------------------------------------ C30
\* What ->power_off() of a domain may return.
PowerOffReturns == {OK, EBUSY, EIO}

\* The condition of pm_genpd_sync_poweroff() as the specification words it.
SyncPowerOffAllowed(G, D) ==
    /\ G.status[D] = GPD_STATE_ACTIVE
    /\ G.suspended_count[D] = G.device_count[D]
    /\ G.sd_count[D] = 0

\* The domains that are ACTIVE in G and POWER_OFF in R.
PoweredOffBetween(G, R) ==
    {g \in Dom : G.status[g] = GPD_STATE_ACTIVE /\ R.status[g] = GPD_STATE_POWER_OFF}

\* The links to the master m from the subdomains in gone.
LinksFrom(G, gone, m) ==
    UNION {{<<s, i>> : i \in {k \in 1..Len(G.slave_links[s]) : G.slave_links[s][k] = m}} :
           s \in gone}

RECURSIVE AncestorsWithin(_, _)
\* The masters of genpd, their masters and so on, n links up at most.
AncestorsWithin(genpd, n) ==
    IF n = 0
    THEN {}
    ELSE LET up == Range(slave_links[genpd])
         IN  up \cup UNION {AncestorsWithin(m, n - 1) : m \in up}

Ancestors(genpd) == AncestorsWithin(genpd, Cardinality(Dom))

\* dev is at its restore_noirq callback in the restored kernel.
RestoreNoirqCase(dev) == pm_cycle = "restore" /\ Bound(dev) /\ CanUp(dev, 4)

\* What pm_genpd_restore_noirq(dev) does, but for the counting: step is what
\* it adds to suspended_count.
RestoreNoirqDoes(dev, step) ==
    LET genpd == pm_domain[dev]
        first == suspended_count[genpd] = 0
        forced == IF first
                  THEN [Cur EXCEPT !.status[genpd] = GPD_STATE_POWER_OFF]
                  ELSE Cur
        synced == pm_genpd_sync_poweron(forced, genpd)
        r == pm_genpd_restore_noirq(Cur, dev)
    IN  /\ r.ret = OK
        /\ r.G.suspended_count[genpd] = suspended_count[genpd] + step
        /\ IF suspend_power_off[genpd]
           THEN /\ Callbacks(r.G) = IF first THEN <<<<"power_off", genpd>>>> ELSE <<>>
                /\ r.G.status[genpd] = GPD_STATE_POWER_OFF
                /\ r.G.started[dev] = started[dev]
                /\ r.G.sd_count = sd_count
           ELSE /\ Callbacks(r.G) = Callbacks(synced) \o <<<<"start", dev>>>>
                /\ first => <<"power_on", genpd>> \in Range(Callbacks(r.G))
                /\ r.G.started[dev]
                /\ \A g \in {genpd} \cup Ancestors(genpd) : r.G.status[g] = GPD_STATE_ACTIVE
                /\ r.G.status = synced.status /\ r.G.sd_count = synced.sd_count

\* C31: restore_noirq(dev) forces D to POWER_OFF on the first device of D in the
\* cycle; with the latch set it calls ->power_off() on that first call only,
\* returns 0, leaves D POWER_OFF and does not start the device; otherwise it
\* runs sync_power_on(D) and ->start(dev), leaving D and its ancestors ACTIVE;
\* and suspended_count is decremented as in resume_noirq.
C31_RestoreNoirqDecrements ==
    \A dev \in Devs : RestoreNoirqCase(dev) => RestoreNoirqDoes(dev, -1)

\* ------------------------------------------------------------------ C32
\* The cases in which add_subdomain(M, S) is to be rejected.
AddSubdomainRejected(M, S) ==
    \/ M = S
    \/ status[M] = GPD_STATE_POWER_OFF /\ status[S] = GPD_STATE_ACTIVE
    \/ S \in Range(master_links[M])

\* G but for the callbacks and mutex operations recorded in it
SameButCalls(G, H) == [G EXCEPT !.calls = H.calls] = H

\* C32: pm_genpd_add_subdomain(M, S) returns an error and leaves every link
\* list and every sd_count (and everything else) as it was when M = S, when M
\* is POWER_OFF and S is ACTIVE, or when S is already in M.master_links;
\* otherwise it returns 0, appends one link to M.master_links and to
\* S.slave_links and nothing to any other list, and adds one to M.sd_count if
\* S is ACTIVE and nothing if S is POWER_OFF.
C32_AddSubdomainLinksAndCounts ==
    \A M, S \in Dom :
        LET r == pm_genpd_add_subdomain(Cur, M, S)
        IN  IF AddSubdomainRejected(M, S)
            THEN r.ret # OK /\ SameButCalls(r.G, Cur)
            ELSE /\ r.ret = OK
                 /\ r.G.master_links = [master_links EXCEPT ![M] = Append(@, S)]
                 /\ r.G.slave_links = [slave_links EXCEPT ![S] = Append(@, M)]
                 /\ r.G.sd_count =
                       [sd_count EXCEPT ![M] = IF status[S] = GPD_STATE_ACTIVE THEN @ + 1 ELSE @]
                 /\ SameButCalls([r.G EXCEPT !.master_links = master_links,
                                            !.slave_links = slave_links,
                                            !.sd_count = sd_count], Cur)

\* A is the master of the active B and counts it, and of C, which is off and
\* not counted.
C32_ActiveAndOffSubdomainLinked ==
    /\ master_links["A"] = <<"B", "C">>
    /\ status = [g \in Dom |-> IF g = "C" THEN GPD_STATE_POWER_OFF ELSE GPD_STATE_ACTIVE]
    /\ sd_count["A"] = 1

\* ------------------------------------------------------------------ C33
\* C33: pm_genpd_remove_subdomain(M, S) returns an error and leaves every link
\* and every sd_count (and everything else) as it was when S has devices or
\* subdomains of its own, and when S is not in M.master_links; otherwise it
\* returns 0, takes the link out of M.master_links and of S.slave_links and
\* nothing out of any other list, and takes one off M.sd_count if S is ACTIVE
\* and nothing if S is POWER_OFF.
C33_RemoveSubdomainUnlinksAndCounts ==
    \A M, S \in Dom :
        LET r == pm_genpd_remove_subdomain(Cur, M, S)
        IN  IF device_count[S] > 0 \/ master_links[S] # <<>>
            THEN r.ret = EBUSY /\ SameButCalls(r.G, Cur)
            ELSE IF S \notin Range(master_links[M])
            THEN r.ret = EINVAL /\ SameButCalls(r.G, Cur)
            ELSE /\ r.ret = OK
                 /\ r.G.master_links = [master_links EXCEPT ![M] = RemoveFirst(@, S)]
                 /\ r.G.slave_links = [slave_links EXCEPT ![S] = RemoveFirst(@, M)]
                 /\ S \notin Range(r.G.master_links[M]) /\ M \notin Range(r.G.slave_links[S])
                 /\ r.G.sd_count =
                       [sd_count EXCEPT ![M] = IF status[S] = GPD_STATE_ACTIVE THEN @ - 1 ELSE @]
                 /\ SameButCalls([r.G EXCEPT !.master_links = master_links,
                                            !.slave_links = slave_links,
                                            !.sd_count = sd_count], Cur)

\* The link from A to B can be removed while B is ACTIVE and counted in
\* A.sd_count.
C33_ActiveSubdomainCanBeUnlinked ==
    /\ "B" \in Range(master_links["A"])
    /\ status["B"] = GPD_STATE_ACTIVE /\ sd_count["A"] > 0
    /\ pm_genpd_remove_subdomain(Cur, "A", "B").ret = OK

\* ------------------------------------------------------------------ C34
\* Thread t is at a mutex_lock() of the lock of genpd.
WaitsFor(t, genpd) ==
    \/ At(t, "lock") /\ slave_links[Top(t).genpd][Top(t).i] = genpd
    \/ EditAt(t, "lock_master") /\ edit[t].genpd = genpd
    \/ EditAt(t, "lock_sub") /\ edit[t].subdomain = genpd

\* C34: in no interleaving of power-on walks, power-off work items and
\* pm_genpd_add_subdomain() and pm_genpd_remove_subdomain() of the link between
\* two domains do two threads each hold the lock of one domain and wait for the
\* lock the other holds.
C34_NoTwoThreadsWaitForEachOther ==
    \A t1, t2 \in Threads :
        \A g1, g2 \in Dom :
            ~(/\ t1 # t2
              /\ mutex[g1] = t1 /\ mutex[g2] = t2
              /\ WaitsFor(t1, g2) /\ WaitsFor(t2, g1))

\* ------------------------------------------------------------------ C35
\* C35: WARN_ON(atomic_read(&genpd->sd_count) == 0) of genpd_sd_counter_dec()
\* never fires, and no sd_count is below 0.
C35_SdCountNeverDecrementedAtZero ==
    ~warned /\ \A g \in Dom : sd_count[g] >= 0

\* The suspend_noirq of a device is about to power its domain off and to take
\* the sd_count of a master from 1 to 0, without the warning.
C35_LastSubdomainAboutToGoOff ==
    \E dev \in Devs, m \in Dom :
        /\ pm_cycle = "suspend" /\ CanDown(dev, 3)
        /\ sd_count[m] = 1
        /\ pm_genpd_suspend_noirq(Cur, dev).G.sd_count[m] = 0
        /\ ~pm_genpd_suspend_noirq(Cur, dev).G.warned

\* ------------------------------------------------------------------ C36
\* The latch implies a prepared device and a domain that is off.
LatchedMeansPreparedAndOff ==
    \A g \in Dom :
        suspend_power_off[g] => (prepared_count[g] > 0 /\ status[g] = GPD_STATE_POWER_OFF)

\* The latch is set by the step that takes prepared_count from 0 to 1 on a
\* POWER_OFF domain, and cleared by a step that brings prepared_count to 0.
LatchStep ==
    \A g \in Dom :
        /\ (~suspend_power_off[g] /\ suspend_power_off'[g]) =>
              (prepared_count[g] = 0 /\ prepared_count'[g] = 1
                  /\ status[g] = GPD_STATE_POWER_OFF)
        /\ (suspend_power_off[g] /\ ~suspend_power_off'[g]) => prepared_count'[g] = 0

\* C36: in every reachable state suspend_power_off implies prepared_count > 0
\* and status POWER_OFF; the latch is set only by the prepare that takes
\* prepared_count from 0 to 1 on a POWER_OFF domain and cleared only by the
\* complete or failed prepare that brings prepared_count back to 0.
C36_LatchOnlyWhilePreparedAndOff ==
    []LatchedMeansPreparedAndOff /\ [][LatchStep]_vars

\* ------------------------------------------------------------------ C37
\* The step on which genpd_dev_pm_attach(dev) returns -EPROBE_DEFER.
AttachDefers(dev) ==
    /\ probe[dev].op = "attach" /\ probe[dev].pc # "done"
    /\ probe'[dev].op = "attach" /\ probe'[dev].pc = "done"
    /\ probe'[dev].result = EPROBE_DEFER

\* dev is in no domain: a genpd_dev_pm_attach(dev) does not return -EEXIST.
NotBound(dev) ==
    /\ pm_domain'[dev] = NULL
    /\ \A g \in Dom : dev \notin Range(dev_list'[g])

\* C37: when genpd_dev_pm_attach(dev) returns -EPROBE_DEFER, dev is in no
\* domain (dev->pm_domain is not set, dev is in no dev_list), so that the next
\* genpd_dev_pm_attach(dev) does not find a domain set and return -EEXIST.
C37_DeferredAttachLeavesDeviceUnbound ==
    [][\A dev \in Devs : AttachDefers(dev) => NotBound(dev)]_vars
====
